---- MODULE Spec2Model ----
(***************************************************************************)
(* Support-set generation of gscan-metaseq2seq (scripts/generate_data.py): *)
(* the rule-based oracle, the retrieval strategies over the training       *)
(* indices and the per-example generation pipeline.                        *)
(*                                                                         *)
(* Python values are modelled as follows: a list is a sequence, a tuple    *)
(* (a, b) is <<a, b>>, None is the string "None", a dict is a function     *)
(* whose DOMAIN is its key set, and a command text (a Python str) is a     *)
(* sequence of one-character strings.                                      *)
(***************************************************************************)
EXTENDS Integers, Sequences, FiniteSets, TLC

VARIABLES
    pc,                     \* position of the modelled run
    query_instruction,      \* oracle input: the query's word tokens
    situation,              \* oracle input: agent, placed objects, target
    options,                \* oracle keyword arguments
    relevant_instructions,  \* what the oracle call produced
    locals,                 \* the oracle's locals when its loops have run
    status,                 \* pipeline: start, running, done or aborted
    dataset,                \* pipeline: the examples of each split
    run_split,          \* pipeline: the split being generated
    run_mode,        \* pipeline: name of the strategy
    run_options,     \* pipeline: kwargs of the configuration
    run_payload,                \* pipeline: what the strategy is handed (indices, ...)
    position,               \* pipeline: number of examples gone through
    yielded,                \* pipeline: the results yielded so far
    log,                    \* pipeline: the messages written so far
    exception,              \* pipeline: what ended the run, if anything
    drawn_demos,         \* pipeline: indices drawn by the last strategy call
    chunk_size,             \* pipeline: the n of batched(iterable, n)
    batch,                  \* pipeline: the examples taken for the batch being filled
    files,                  \* pipeline: the batches written, file i at position i + 1
    unsolvable,             \* pipeline: the verbs whose demonstration comes back empty
    parse_args,             \* codec: the arguments of the parse_sparse_situation call
    grid,                   \* codec: what the call returned
    vocabulary_args,        \* vocabulary: the six bindings handed to the constructor
    vocabulary,             \* vocabulary: the object constructed, or what was raised
    sort_args,              \* ordering: the arguments of the sort call
    sorted_options,         \* ordering: what the sort call produced
    sort_frame,             \* ordering: the locals of the sort's while loop, run step by step
    rule_args,              \* rules: the arguments of the is_prohibited_description call
    rule_result,            \* rules: what the call returned
    description_args,       \* descriptions: the arguments of the generate_description_words_options call
    description_options     \* descriptions: what the call returned

oracle_vars == <<pc, query_instruction, situation, options, relevant_instructions, locals>>

pipeline_vars ==
    <<status, dataset, run_split, run_mode, run_options, run_payload,
      position, yielded, log, exception, drawn_demos, chunk_size, batch, files>>

codec_vars == <<parse_args, grid>>

vocabulary_vars == <<vocabulary_args, vocabulary>>

sort_vars == <<sort_args, sorted_options, sort_frame>>

rule_vars == <<rule_args, rule_result>>

description_vars == <<description_args, description_options>>

\* what the pipeline's steps leave alone
outside_pipeline == <<oracle_vars, codec_vars, vocabulary_vars, sort_vars, rule_vars, description_vars, unsolvable>>

\* what an oracle call leaves alone
outside_oracle == <<pipeline_vars, codec_vars, vocabulary_vars, sort_vars, rule_vars, description_vars, unsolvable>>

vars == <<oracle_vars, pipeline_vars, codec_vars, vocabulary_vars, sort_vars, rule_vars, description_vars, unsolvable>>

None == "None"

(***************************** bounds **************************************)
\* side of the square grid the situations are drawn from
GridSize == 2
\* most objects placed in one situation
MaxObjects == 2
\* largest num_demos tried besides the default
MaxNumDemos == 2

(*************************** list helpers **********************************)
InSeq(w, s) == \E i \in DOMAIN s : s[i] = w

Min(a, b) == IF a < b THEN a ELSE b

Range(s) == {s[i] : i \in DOMAIN s}

\* an Optional[int]: <<>> is None and <<n>> is the integer n
Some(n) == <<n>>

\* s[:n] of Python for an Optional n >= 0
Take(s, n) == IF n = <<>> THEN s ELSE SubSeq(s, 1, Min(n[1], Len(s)))

RECURSIVE Flatten(_)
Flatten(ss) == IF ss = <<>> THEN <<>> ELSE Head(ss) \o Flatten(Tail(ss))

(*************************** vocabulary ************************************)
\* DATASET_VOCABULARIES["gscan"]: (sorted colors, sorted nouns)
vocabulary_colors == <<"blue", "green", "red", "yellow">>

vocabulary_nouns == <<"circle", "cylinder", "square">>

ALL_ACTION_OPTIONS == << <<"walk", "to">>, <<"push">>, <<"pull">> >>

ALL_ADVERB_OPTIONS ==
    << <<"while spinning">>, <<"while zigzagging">>, <<"hesitantly">>, <<>> >>

SPLITS_ALLOW_ORACLE_DEMONSTRATIONS ==
    [ train         |-> <<>>,
      test          |-> <<"A", "B", "C", "D", "E", "F", "G", "H">>,
      visual_easier |-> <<"A", "C", "D", "E", "F", "G", "H">>,
      visual        |-> <<"A", "B", "D", "E", "F", "G", "H">>,
      situational_1 |-> <<"A", "B", "C", "E", "F", "G", "H">>,
      situational_2 |-> <<"A", "B", "C", "D", "F", "G", "H">>,
      contextual    |-> <<"A", "B", "C", "D", "E", "G", "H">>,
      adverb_1      |-> <<"A", "B", "C", "D", "E", "F", "G", "H">>,
      adverb_2      |-> <<"A", "B", "C", "D", "E", "F", "G">> ]

SplitNames == DOMAIN SPLITS_ALLOW_ORACLE_DEMONSTRATIONS

(************************* prohibition rules *******************************)
\* rule H as its comment on line 127 words it: push while spinning
is_prohibited_action_adverb_combo_push(action_words, adverb_words) ==
    IF InSeq("push", action_words) /\ InSeq("while spinning", adverb_words)
    THEN "H"
    ELSE None

is_prohibited_action_adverb_combo(action_words, adverb_words) ==
    IF InSeq("pull", action_words) /\ InSeq("while spinning", adverb_words)
    THEN "H"
    ELSE None

\* the same with the evaluation given up at the first rule that holds, waived or not
is_prohibited_description_first_holding(agent_pos, target_object, description_words, allow_demonstration_splits) ==
    IF InSeq("yellow", description_words) /\ InSeq("square", description_words)
    THEN IF InSeq("B", allow_demonstration_splits) THEN None ELSE "B"
    ELSE IF target_object.color = "red" /\ target_object.shape = "square"
    THEN IF InSeq("C", allow_demonstration_splits) THEN None ELSE "C"
    ELSE IF /\ agent_pos.row < target_object.row
            /\ agent_pos.column > target_object.column
    THEN IF InSeq("D", allow_demonstration_splits) THEN None ELSE "D"
    ELSE IF /\ InSeq("small", description_words)
            /\ target_object.size = 2
            /\ target_object.shape = "circle"
    THEN IF InSeq("E", allow_demonstration_splits) THEN None ELSE "E"
    ELSE IF /\ InSeq("push", description_words)
            /\ target_object.size = 3
            /\ target_object.shape = "square"
    THEN IF InSeq("F", allow_demonstration_splits) THEN None ELSE "F"
    ELSE None

\* allow_demonstration_splits = None is passed as <<>> (the code's "or []")
is_prohibited_description(agent_pos, target_object, description_words, allow_demonstration_splits) ==
    IF /\ InSeq("yellow", description_words)
       /\ InSeq("square", description_words)
       /\ ~InSeq("B", allow_demonstration_splits)
    THEN "B"
    ELSE IF /\ target_object.color = "red"
            /\ target_object.shape = "square"
            /\ ~InSeq("C", allow_demonstration_splits)
    THEN "C"
    ELSE IF /\ agent_pos.row < target_object.row
            /\ agent_pos.column > target_object.column
            /\ ~InSeq("D", allow_demonstration_splits)
    THEN "D"
    ELSE IF /\ InSeq("small", description_words)
            /\ target_object.size = 2
            /\ target_object.shape = "circle"
            /\ ~InSeq("E", allow_demonstration_splits)
    THEN "E"
    ELSE IF /\ InSeq("push", description_words)
            /\ target_object.size = 3
            /\ target_object.shape = "square"
            /\ ~InSeq("F", allow_demonstration_splits)
    THEN "F"
    ELSE None

(********************** description options ********************************)
\* object_types_max_sizes[shape][color] after the loop (defaultdict(int))
object_types_max_sizes(placed_objects, shape, color) ==
    LET sizes == {placed_objects[i].size : i \in {j \in DOMAIN placed_objects :
                     /\ placed_objects[j].shape = shape
                     /\ placed_objects[j].color = color}}
    IN  IF sizes = {} THEN 0
        ELSE CHOOSE m \in sizes : \A x \in sizes : x <= m

\* object_types_min_sizes[shape][color] after the loop (defaultdict of 10)
object_types_min_sizes(placed_objects, shape, color) ==
    LET sizes == {placed_objects[i].size : i \in {j \in DOMAIN placed_objects :
                     /\ placed_objects[j].shape = shape
                     /\ placed_objects[j].color = color}} \cup {10}
    IN  CHOOSE m \in sizes : \A x \in sizes : m <= x

\* the same with the group's minimum looked at before its maximum
size_tag_small_first(placed_objects, o) ==
    IF o.size = object_types_min_sizes(placed_objects, o.shape, o.color)
    THEN <<"small">>
    ELSE IF o.size = object_types_max_sizes(placed_objects, o.shape, o.color)
    THEN <<"big">>
    ELSE <<>>

size_tag(placed_objects, o) ==
    IF o.size = object_types_max_sizes(placed_objects, o.shape, o.color)
    THEN <<"big">>
    ELSE IF o.size = object_types_min_sizes(placed_objects, o.shape, o.color)
    THEN <<"small">>
    ELSE <<>>

SamePosition(a, b) == a.row = b.row /\ a.column = b.column

\* each option is the tuple (description words, target object)
generate_description_words_options(sit, description_words) ==
    LET others == SelectSeq(sit.placed_objects,
                      LAMBDA o : ~SamePosition(o, sit.target_object))
    IN  << <<description_words, sit.target_object>> >> \o
        [i \in DOMAIN others |->
            << size_tag(sit.placed_objects, others[i])
                   \o <<others[i].color, others[i].shape>>,
               others[i] >>]

(******************** round-robin ordering of options **********************)
size_words == <<"big", "small">>

\* the cycle run the other way round
next_mode_backwards == [color |-> "size", object |-> "color", size |-> "object"]

next_mode == [color |-> "object", object |-> "size", size |-> "color"]

\* matches_<mode>_word: does option dw share a word of the category with the query
option_matches(dw, category_words, query_description_words) ==
    \E i \in DOMAIN dw[1] :
        InSeq(dw[1][i], category_words) /\ InSeq(dw[1][i], query_description_words)

\* sorted(option_indices, key=matches, reverse=True): a stable sort
sorted_by_match(matches) ==
    SelectSeq([i \in DOMAIN matches |-> i], LAMBDA i : matches[i]) \o
    SelectSeq([i \in DOMAIN matches |-> i], LAMBDA i : ~matches[i])

RECURSIVE sort_loop(_, _, _, _, _, _)
\* the while loop of sort_description_words_by_query_match; idx counts from 0
sort_loop(opts, arr, matches, mode, idx, taken) ==
    IF \A m \in DOMAIN idx : idx[m] >= Len(arr[m])
    THEN <<>>
    ELSE IF idx[mode] >= Len(arr[mode])
    THEN sort_loop(opts, arr, matches, next_mode[mode], idx, taken)
    ELSE LET possible_option == arr[mode][idx[mode] + 1]
             advanced == [idx EXCEPT ![mode] = @ + 1]
         IN  IF possible_option \in taken \/ ~matches[mode][possible_option]
             THEN sort_loop(opts, arr, matches, mode, advanced, taken)
             ELSE <<opts[possible_option]>> \o
                  sort_loop(opts, arr, matches, next_mode[mode], advanced,
                            taken \cup {possible_option})

sort_description_words_by_query_match(description_words_options, query_description_words, colors, nouns) ==
    LET matches ==
            [ color  |-> [i \in DOMAIN description_words_options |->
                            option_matches(description_words_options[i], colors,
                                           query_description_words)],
              object |-> [i \in DOMAIN description_words_options |->
                            option_matches(description_words_options[i], nouns,
                                           query_description_words)],
              size   |-> [i \in DOMAIN description_words_options |->
                            option_matches(description_words_options[i], size_words,
                                           query_description_words)] ]
        arr == [m \in DOMAIN matches |-> sorted_by_match(matches[m])]
    IN  sort_loop(description_words_options, arr, matches, "color",
                  [color |-> 0, object |-> 0, size |-> 0], {})

\* option_matches, lines 259-286: per mode, whether each option matches
sort_option_matches(description_words_options, query_description_words) ==
    [ color  |-> [i \in DOMAIN description_words_options |->
                    option_matches(description_words_options[i], vocabulary_colors,
                                   query_description_words)],
      object |-> [i \in DOMAIN description_words_options |->
                    option_matches(description_words_options[i], vocabulary_nouns,
                                   query_description_words)],
      size   |-> [i \in DOMAIN description_words_options |->
                    option_matches(description_words_options[i], size_words,
                                   query_description_words)] ]

\* indices_indexes_array, lines 282-286: per mode, the option positions sorted by match
sort_indices_indexes_array(description_words_options, query_description_words) ==
    [m \in {"color", "object", "size"} |->
        sorted_by_match(sort_option_matches(description_words_options,
                                            query_description_words)[m])]

(********************* verb / adverb combinations **************************)
\* itertools.product(a, b) as a list of pairs, a-major
product(a, b) ==
    Flatten([i \in DOMAIN a |-> [j \in DOMAIN b |-> <<a[i], b[j]>>]])

AllIn(ws, s) == \A i \in DOMAIN ws : InSeq(ws[i], s)

\* the same with both the verb and the adverb required to be in the instruction
generate_limited_adverb_verb_combos_both(possible_verbs, possible_adverbs, verb_words_in_instruction, adverb_words_in_instruction) ==
    SelectSeq(product(possible_verbs, possible_adverbs),
        LAMBDA c :
            LET verb_is_in_instruction == AllIn(c[1], verb_words_in_instruction)
                adverb_is_in_instruction ==
                    \/ c[2] # <<>> /\ AllIn(c[2], adverb_words_in_instruction)
                    \/ adverb_words_in_instruction = <<>> /\ c[2] = <<>>
            IN  adverb_is_in_instruction /\ verb_is_in_instruction)

generate_limited_adverb_verb_combos(possible_verbs, possible_adverbs, verb_words_in_instruction, adverb_words_in_instruction) ==
    SelectSeq(product(possible_verbs, possible_adverbs),
        LAMBDA c :
            LET verb_is_in_instruction == AllIn(c[1], verb_words_in_instruction)
                adverb_is_in_instruction ==
                    \/ c[2] # <<>> /\ AllIn(c[2], adverb_words_in_instruction)
                    \/ adverb_words_in_instruction = <<>> /\ c[2] = <<>>
            IN  adverb_is_in_instruction \/ verb_is_in_instruction)

(****************************** the oracle *********************************)
vocabulary_verbs == <<"walk", "to", "push", "pull">>

vocabulary_adverbs == <<"while spinning", "while zigzagging", "hesitantly", "cautiously">>

words_in(instruction, words) == SelectSeq(instruction, LAMBDA w : InSeq(w, words))

\* kw holds the keyword arguments: n_description_options, demonstrate_target,
\* allow_demonstration_splits, allow_any_example, num_demos, pick_random,
\* limit_verb_adverb

\* lines 399-410: the words of the instruction that belong to a category
query_description_words(instruction, colors, nouns) ==
    words_in(instruction, colors \o nouns \o <<"big", "small">>)

\* lines 458-472: the alternatives the rules leave
filter_prohibited(sorted_other_description_words, sit, kw) ==
    IF kw.allow_any_example
    THEN sorted_other_description_words
    ELSE SelectSeq(sorted_other_description_words,
             LAMBDA dw : is_prohibited_description(sit.agent_pos, dw[2], dw[1],
                             kw.allow_demonstration_splits) = None)

\* lines 423-446: the alternatives in round-robin order
sorted_others(description_words_options, colors, nouns) ==
    sort_description_words_by_query_match(Tail(description_words_options),
        description_words_options[1][1], colors, nouns)

\* lines 412-472: the alternatives, ordered by the round-robin and then filtered
oracle_filtered_sorted_other_description_words(instruction, sit, colors, nouns, kw) ==
    filter_prohibited(
        sorted_others(generate_description_words_options(sit,
            query_description_words(instruction, colors, nouns)), colors, nouns),
        sit, kw)

\* lines 482-490 without the exception for a target with no alternative left
set_aside_without_exception(target_description_words, filtered_sorted_other_description_words, sit, kw) ==
    IF ~kw.demonstrate_target
    THEN <<>>
    ELSE IF /\ ~kw.allow_any_example
            /\ is_prohibited_description(sit.agent_pos,
                   target_description_words[1][2], target_description_words[1][1],
                   <<>>) # None
    THEN <<>>
    ELSE target_description_words

\* lines 482-490 with a target check that passes the split's waiver list on
set_aside_waived(target_description_words, filtered_sorted_other_description_words, sit, kw) ==
    IF filtered_sorted_other_description_words # <<>>
    THEN IF ~kw.demonstrate_target
         THEN <<>>
         ELSE IF /\ ~kw.allow_any_example
                 /\ is_prohibited_description(sit.agent_pos,
                        target_description_words[1][2], target_description_words[1][1],
                        kw.allow_demonstration_splits) # None
         THEN <<>>
         ELSE target_description_words
    ELSE target_description_words

\* lines 482-490: the target's option is emptied when an alternative is left and the
\* target is not to be demonstrated or matches a rule (no waiver list is passed)
set_aside(target_description_words, filtered_sorted_other_description_words, sit, kw) ==
    IF filtered_sorted_other_description_words # <<>>
    THEN IF ~kw.demonstrate_target
         THEN <<>>
         ELSE IF /\ ~kw.allow_any_example
                 /\ is_prohibited_description(sit.agent_pos,
                        target_description_words[1][2], target_description_words[1][1],
                        <<>>) # None
         THEN <<>>
         ELSE target_description_words
    ELSE target_description_words

\* lines 386-421: the verb / adverb combinations tried for every option
oracle_adverb_verb_combos(instruction, kw) ==
    LET real_adverb_options ==
            IF InSeq("cautiously", instruction)
            THEN ALL_ADVERB_OPTIONS \o << <<"cautiously">> >>
            ELSE ALL_ADVERB_OPTIONS
    IN  IF ~kw.limit_verb_adverb
        THEN product(ALL_ACTION_OPTIONS, real_adverb_options)
        ELSE generate_limited_adverb_verb_combos(ALL_ACTION_OPTIONS,
                 real_adverb_options, words_in(instruction, vocabulary_verbs),
                 words_in(instruction, vocabulary_adverbs))

\* lines 509-513 alone: the comparison with the query is left out
oracle_accepts_any_instruction(instruction, article_words, dw, c, kw) ==
    ~(is_prohibited_action_adverb_combo(c[1], c[2]) # None /\ ~kw.allow_any_example)

\* lines 509-524: is the combination c of option dw appended to the supports
oracle_accepts(instruction, article_words, dw, c, kw) ==
    /\ ~(is_prohibited_action_adverb_combo(c[1], c[2]) # None /\ ~kw.allow_any_example)
    /\ c[1] \o article_words \o dw[1] \o c[2] # instruction

\* lines 515-524: the instructions appended for option dw, one per accepted combination
instructions_for(article_words, dw, accepted) ==
    [j \in DOMAIN accepted |->
        << accepted[j][1] \o article_words \o dw[1] \o accepted[j][2], dw[2] >>]

\* the inner loop for option dw
option_loop(instruction, article_words, dw, adverb_verb_combos, kw) ==
    instructions_for(article_words, dw,
        SelectSeq(adverb_verb_combos,
            LAMBDA c : oracle_accepts(instruction, article_words, dw, c, kw)))

\* lines 505-524 with the two loops exchanged: combination-major order
nested_loops_combo_major(instruction, article_words, description_words_options, adverb_verb_combos, kw) ==
    LET instructions_with(c, accepted) ==
            [i \in DOMAIN accepted |->
                << c[1] \o article_words \o accepted[i][1] \o c[2], accepted[i][2] >>]
    IN  Flatten([j \in DOMAIN adverb_verb_combos |->
            instructions_with(adverb_verb_combos[j],
                SelectSeq(description_words_options,
                    LAMBDA dw : oracle_accepts(instruction, article_words, dw,
                                    adverb_verb_combos[j], kw)))])

\* lines 505-524: the description loop outside, the combination loop inside
nested_loops(instruction, article_words, description_words_options, adverb_verb_combos, kw) ==
    Flatten([i \in DOMAIN description_words_options |->
        option_loop(instruction, article_words, description_words_options[i],
                    adverb_verb_combos, kw)])

\* injective index sequences of length k over 1..n: np.random.permutation(n)[:k]
permutation_prefixes(n, k) ==
    {p \in [1..k -> 1..n] : \A i, j \in 1..k : i # j => p[i] # p[j]}

\* lines 526-541: what the call can return once support_instructions is built; value
\* is the returned list and error names the exception raised instead of returning
oracle_returns(support_instructions, kw) ==
    IF kw.allow_demonstration_splits = <<>> /\ support_instructions = <<>>
    THEN {[error |-> None, value |-> <<>>]}
    ELSE IF ~(Len(support_instructions) > 0)
    THEN {[error |-> "AssertionError", value |-> <<>>]}
    ELSE IF kw.pick_random
    THEN {[error |-> None, value |-> [i \in DOMAIN p |-> support_instructions[p[i]]]] :
             p \in permutation_prefixes(Len(support_instructions),
                       Min(kw.num_demos, Len(support_instructions)))}
    ELSE {[error |-> None, value |-> Take(support_instructions, Some(kw.num_demos))]}

\* the locals of the function when the loops have run, given the true target's option
\* and the filtered alternatives
oracle_locals_from(instruction, sit, kw, filtered_sorted_other_description_words, description_words_options) ==
    [filtered_sorted_other_description_words |-> filtered_sorted_other_description_words,
     description_words_options |-> description_words_options,
     support_instructions |->
         nested_loops(instruction, words_in(instruction, <<"a">>),
             description_words_options, oracle_adverb_verb_combos(instruction, kw), kw)]

\* lines 474-498: the target's option is set aside or kept, put before the
\* alternatives, and the first n_description_options options are taken
oracle_locals_after_filter(instruction, sit, kw, target_description_words, filtered_sorted_other_description_words) ==
    oracle_locals_from(instruction, sit, kw, filtered_sorted_other_description_words,
        Take(set_aside(target_description_words, filtered_sorted_other_description_words,
                       sit, kw) \o filtered_sorted_other_description_words,
             kw.n_description_options))

\* lines 378-524: the function up to the end of the loops
oracle_locals(instruction, sit, colors, nouns, kw) ==
    oracle_locals_after_filter(instruction, sit, kw,
        SubSeq(generate_description_words_options(sit,
            query_description_words(instruction, colors, nouns)), 1, 1),
        oracle_filtered_sorted_other_description_words(instruction, sit, colors, nouns, kw))

generate_relevant_instructions_gscan_oracle(instruction, sit, colors, nouns, kw) ==
    oracle_returns(oracle_locals(instruction, sit, colors, nouns, kw).support_instructions, kw)

(********************* inputs of the oracle runs ***************************)
\* the agent stands in the north-east corner of the grid
AgentCell == [row |-> 0, column |-> GridSize - 1]

\* the objects stand in the southern row: south-west of the agent, except in the
\* last column, which is straight south of it
ObjectCell(c) == [row |-> GridSize - 1, column |-> c]

\* the kinds of object placed: a circle of each size (rule E is about the circle of
\* size 2 called small), a red and a yellow square of size 3 (rules C, B and F)
ObjectKinds ==
    { [size |-> 2, color |-> "red", shape |-> "circle"],
      [size |-> 3, color |-> "red", shape |-> "circle"],
      [size |-> 3, color |-> "red", shape |-> "square"],
      [size |-> 3, color |-> "yellow", shape |-> "square"] }

PlacedObject(c, kind) ==
    [row |-> ObjectCell(c).row, column |-> ObjectCell(c).column,
     size |-> kind.size, color |-> kind.color, shape |-> kind.shape]

\* strictly increasing column lists: the objects are listed west to east
ColumnLists(n) ==
    {cs \in [1..n -> 0..(GridSize - 1)] : \A i \in 1..(n - 1) : cs[i] < cs[i + 1]}

ObjectLists ==
    UNION {{[i \in 1..n |-> PlacedObject(cs[i], kinds[i])] :
               cs \in ColumnLists(n), kinds \in [1..n -> ObjectKinds]} :
           n \in 1..MaxObjects}

Situations ==
    UNION {{[agent_pos |-> AgentCell, placed_objects |-> os, target_object |-> os[t]] :
               t \in DOMAIN os} : os \in ObjectLists}

\* the size word a query may use for the target: relative to another object of its shape
QuerySizeWords(sit) ==
    LET t == sit.target_object
        same == {sit.placed_objects[i] : i \in {j \in DOMAIN sit.placed_objects :
                    sit.placed_objects[j].shape = t.shape}}
    IN  {<<"small">> : o \in {x \in same : x.size > t.size}} \cup
        {<<"big">> : o \in {x \in same : x.size < t.size}}

\* descriptions of the target: colour and noun, with a size word where one applies
QueryDescriptions(sit) ==
    LET t == sit.target_object
    IN  {<<t.color, t.shape>>} \cup {w \o <<t.color, t.shape>> : w \in QuerySizeWords(sit)}

\* (verb phrase, adverb phrase) of the commands tried
QueryForms ==
    { << <<"walk", "to">>, <<>> >>, << <<"push">>, <<>> >>, << <<"pull">>, <<>> >>,
      << <<"pull">>, <<"while spinning">> >>, << <<"walk", "to">>, <<"cautiously">> >> }

\* a command: verb phrase, article, description of the target, optional adverb
Queries(sit) ==
    {f[1] \o <<"a">> \o d \o f[2] : f \in QueryForms, d \in QueryDescriptions(sit)}

OptionRecord(sp, n, dt, aa, nd, pr, lv) ==
    [split |-> sp,
     allow_demonstration_splits |-> SPLITS_ALLOW_ORACLE_DEMONSTRATIONS[sp],
     n_description_options |-> n, demonstrate_target |-> dt, allow_any_example |-> aa,
     num_demos |-> nd, pick_random |-> pr, limit_verb_adverb |-> lv]

\* every split's waiver list against the options that decide which targets are shown
PolicyOptions ==
    {OptionRecord(sp, <<>>, dt, aa, 16, FALSE, FALSE) :
        sp \in SplitNames, dt \in BOOLEAN, aa \in BOOLEAN}

\* the options that decide which instructions are built and how many are kept
SelectionOptions ==
    {OptionRecord("train", n, TRUE, FALSE, nd, FALSE, lv) :
        n \in {<<>>, Some(0), Some(1)}, nd \in 0..MaxNumDemos, lv \in BOOLEAN}

\* a random configuration (pick_random, no demonstration of the target), with one
\* description option and num_demos = 1 so that the draws can be enumerated
RandomOptions == {OptionRecord("test", Some(1), FALSE, FALSE, 1, TRUE, FALSE)}

OracleOptions == PolicyOptions \cup SelectionOptions \cup RandomOptions

(************************** command texts **********************************)
\* the characters of each word a command can hold
spelling ==
    [w \in {"walk", "to", "push", "pull", "a", "big", "small", "red", "yellow", "blue",
            "green", "circle", "square", "cylinder", "while spinning",
            "while zigzagging", "hesitantly", "cautiously"} |->
        CASE w = "walk" -> <<"w", "a", "l", "k">>
          [] w = "to" -> <<"t", "o">>
          [] w = "push" -> <<"p", "u", "s", "h">>
          [] w = "pull" -> <<"p", "u", "l", "l">>
          [] w = "a" -> <<"a">>
          [] w = "big" -> <<"b", "i", "g">>
          [] w = "small" -> <<"s", "m", "a", "l", "l">>
          [] w = "red" -> <<"r", "e", "d">>
          [] w = "yellow" -> <<"y", "e", "l", "l", "o", "w">>
          [] w = "blue" -> <<"b", "l", "u", "e">>
          [] w = "green" -> <<"g", "r", "e", "e", "n">>
          [] w = "circle" -> <<"c", "i", "r", "c", "l", "e">>
          [] w = "square" -> <<"s", "q", "u", "a", "r", "e">>
          [] w = "cylinder" -> <<"c", "y", "l", "i", "n", "d", "e", "r">>
          [] w = "while spinning" ->
                <<"w", "h", "i", "l", "e", " ", "s", "p", "i", "n", "n", "i", "n", "g">>
          [] w = "while zigzagging" ->
                <<"w", "h", "i", "l", "e", " ", "z", "i", "g", "z", "a", "g", "g", "i", "n", "g">>
          [] w = "hesitantly" -> <<"h", "e", "s", "i", "t", "a", "n", "t", "l", "y">>
          [] w = "cautiously" -> <<"c", "a", "u", "t", "i", "o", "u", "s", "l", "y">>]

\* " ".join(parts): parts is what iterating the argument gives, each part a text
RECURSIVE join(_)
join(parts) ==
    IF parts = <<>> THEN <<>>
    ELSE IF Len(parts) = 1 THEN parts[1]
    ELSE parts[1] \o <<" ">> \o join(Tail(parts))

\* " ".join(words) for a list of words
join_words(words) == join([i \in DOMAIN words |-> spelling[words[i]]])

\* " ".join(text) for a str: iterating a str gives its characters
join_str(text) == join([i \in DOMAIN text |-> <<text[i]>>])

(************************* training indices ********************************)
\* enumerate(examples): the indices are 0-based
indices(examples) == [i \in DOMAIN examples |-> i - 1]

x_offset(sit) == sit.target_object.column - sit.agent_pos.column

y_offset(sit) == sit.target_object.row - sit.agent_pos.row

\* the same with only the first index of each command kept
sort_indices_by_command_first_only(examples) ==
    LET key(i) == join_words(examples[i + 1].command)
    IN  [k \in {key(i) : i \in Range(indices(examples))} |->
            Take(SelectSeq(indices(examples), LAMBDA i : key(i) = k), Some(1))]

\* the returned dict maps each command text to the ascending list of its indices
sort_indices_by_command(examples) ==
    LET key(i) == join_words(examples[i + 1].command)
    IN  [k \in {key(i) : i \in Range(indices(examples))} |->
            SelectSeq(indices(examples), LAMBDA i : key(i) = k)]

\* a defaultdict of defaultdicts of lists, held as one function over <<x, y>>
sort_indices_by_offsets(examples) ==
    LET key(i) == <<x_offset(examples[i + 1].situation), y_offset(examples[i + 1].situation)>>
    IN  [k \in {key(i) : i \in Range(indices(examples))} |->
            SelectSeq(indices(examples), LAMBDA i : key(i) = k)]

sort_indices_by_target_positions(examples) ==
    LET key(i) == <<examples[i + 1].situation.target_object.column,
                    examples[i + 1].situation.target_object.row>>
    IN  [k \in {key(i) : i \in Range(indices(examples))} |->
            SelectSeq(indices(examples), LAMBDA i : key(i) = k)]

\* key of the five nested levels: x_diff, y_diff, size, shape, color
diff_and_description(sit) ==
    <<x_offset(sit), y_offset(sit), sit.target_object.size, sit.target_object.shape,
      sit.target_object.color>>

sort_indices_by_target_diff_and_description(examples) ==
    LET key(i) == diff_and_description(examples[i + 1].situation)
    IN  [k \in {key(i) : i \in Range(indices(examples))} |->
            SelectSeq(indices(examples), LAMBDA i : key(i) = k)]

\* sorted(placed_objects, key=(row, column)): stable, ascending
RECURSIVE sorted_by_position(_)
sorted_by_position(objects) ==
    IF objects = <<>> THEN <<>>
    ELSE LET o == objects[Len(objects)]
             before == sorted_by_position(SubSeq(objects, 1, Len(objects) - 1))
             later(e) == e.row > o.row \/ (e.row = o.row /\ e.column > o.column)
         IN  SelectSeq(before, LAMBDA e : ~later(e)) \o <<o>> \o SelectSeq(before, later)

\* the part of the text written for one object: its attributes, row and column
serialize_object(o) == <<o.size, o.color, o.shape, o.row, o.column>>

\* the text is held by its fields: the agent's column and row, the target, and the
\* placed objects in position order
serialize_situation(sit) ==
    [agent |-> <<sit.agent_pos.column, sit.agent_pos.row>>,
     target |-> serialize_object(sit.target_object),
     objects |-> [i \in DOMAIN sit.placed_objects |->
                     serialize_object(sorted_by_position(sit.placed_objects)[i])]]

\* the returned dict maps each serialized layout to the list of its indices
sort_indices_by_serialized_situation(examples) ==
    LET key(i) == serialize_situation(examples[i + 1].situation)
    IN  [k \in {key(i) : i \in Range(indices(examples))} |->
            SelectSeq(indices(examples), LAMBDA i : key(i) = k)]

\* reading d[key] of a defaultdict(list): a missing key is inserted with []
defaultdict_after_read(d, key) == IF key \in DOMAIN d THEN d ELSE d @@ (key :> <<>>)

defaultdict_read(d, key) == IF key \in DOMAIN d THEN d[key] ELSE <<>>

RECURSIVE bisect_left(_, _, _, _)
bisect_left(a, x, lo, hi) ==
    IF lo < hi
    THEN LET mid == (lo + hi) \div 2
         IN  IF a[mid + 1] < x THEN bisect_left(a, x, mid + 1, hi)
             ELSE bisect_left(a, x, lo, mid)
    ELSE lo

\* the same looking at the leftmost element only
find_in_sorted_list_leftmost(a, x) == a # <<>> /\ a[1] = x

find_in_sorted_list(a, x) ==
    LET i == bisect_left(a, x, 0, Len(a))
    IN  i # Len(a) /\ a[i + 1] = x

\* np.random.choice(a, size=size, replace=replace): every draw it can make
choice(a, size, replace) ==
    {[i \in 1..size |-> a[p[i]]] :
        p \in {q \in [1..size -> DOMAIN a] :
                  replace \/ \A i, j \in 1..size : i # j => q[i] # q[j]}}

(************************ generation strategies ****************************)
\* A strategy call either raises or returns (error, (instructions, targets,
\* layouts)). supports holds the three lists, payload what the call left in the
\* payload it was given, relevant_demos the indices it drew (its local variable).
Raised(exc, payload) ==
    [raised |-> exc, error |-> None, supports |-> << <<>>, <<>>, <<>> >>,
     payload |-> payload, relevant_demos |-> <<>>]

Outcome(error, supports, payload, relevant_demos) ==
    [raised |-> None, error |-> error, supports |-> supports,
     payload |-> payload, relevant_demos |-> relevant_demos]

\* the keyword arguments a strategy hands to the oracle
oracle_kwargs(n, dt, waivers, aa, nd, pr, lv) ==
    [n_description_options |-> n, demonstrate_target |-> dt,
     allow_demonstration_splits |-> waivers, allow_any_example |-> aa,
     num_demos |-> nd, pick_random |-> pr, limit_verb_adverb |-> lv]

\* the solver's action sequence for an instruction and its target: a function of its
\* arguments, empty when the solver fails, which it does for the verbs of unsolvable;
\* the actions of a sequence found are left uninterpreted
demonstrate_command_oracle(support_instruction_command, target_object) ==
    IF \E verb \in unsolvable : InSeq(verb, support_instruction_command)
    THEN <<>>
    ELSE << [demonstrates |-> support_instruction_command, target |-> target_object] >>

\* the oracle strategy without the early return: an empty answer is returned like
\* any other
generate_relevant_supports_oracle_without_skip(index, command, target_commands, sit, payload, opts) ==
    LET colors == payload[1]
        nouns == payload[2]
        allow_demonstration_splits == payload[3]
        calls == generate_relevant_instructions_gscan_oracle(command, sit, colors, nouns,
                    oracle_kwargs(opts.n_description_options, opts.demonstrate_target,
                        allow_demonstration_splits, opts.allow_any_example,
                        opts.num_demos, opts.pick_random, opts.limit_verb_adverb))
        returned(found) ==
            Outcome(None,
                    << [i \in DOMAIN found |-> found[i][1]],
                       [i \in DOMAIN found |->
                           demonstrate_command_oracle(found[i][1], found[i][2])],
                       <<>> >>, payload, <<>>)
    IN  {IF c.error # None THEN Raised(c.error, payload) ELSE returned(c.value) : c \in calls}

\* lines 723-773: an empty answer of the oracle is returned as an error message
generate_relevant_supports_oracle(index, command, target_commands, sit, payload, opts) ==
    LET colors == payload[1]
        nouns == payload[2]
        allow_demonstration_splits == payload[3]
        calls == generate_relevant_instructions_gscan_oracle(command, sit, colors, nouns,
                    oracle_kwargs(opts.n_description_options, opts.demonstrate_target,
                        allow_demonstration_splits, opts.allow_any_example,
                        opts.num_demos, opts.pick_random, opts.limit_verb_adverb))
        returned(found) ==
            IF found = <<>>
            THEN Outcome("Skipping: no demonstrations are possible",
                         <<None, None, None>>, payload, <<>>)
            ELSE Outcome(None,
                    << [i \in DOMAIN found |-> found[i][1]],
                       [i \in DOMAIN found |->
                           demonstrate_command_oracle(found[i][1], found[i][2])],
                       <<>> >>, payload, <<>>)
    IN  {IF c.error # None THEN Raised(c.error, payload) ELSE returned(c.value) : c \in calls}

\* the loop over the instructions to look up: key is what " ".join makes of each;
\* an instruction whose key is not in the index is passed over, for the others an
\* example is drawn from the key's bucket
RECURSIVE support_draws(_, _, _, _)
support_draws(instructions, keys, sorted_example_indices_by_command, train_examples) ==
    IF instructions = <<>> THEN {<< <<>>, <<>>, <<>> >>}
    ELSE LET rest == support_draws(Tail(instructions), Tail(keys),
                         sorted_example_indices_by_command, train_examples)
         IN  IF keys[1] \notin DOMAIN sorted_example_indices_by_command THEN rest
             ELSE {<< <<instructions[1]>> \o r[1],
                      <<train_examples[idx + 1].target_commands>> \o r[2],
                      <<train_examples[idx + 1].situation>> \o r[3] >> :
                      idx \in Range(sorted_example_indices_by_command[keys[1]]), r \in rest}

generate_instructions_find_support_in_any_layout(index, command, target_commands, sit, payload, opts) ==
    LET sorted_example_indices_by_command == payload[1]
        train_examples == payload[2]
        colors == payload[3]
        nouns == payload[4]
        allow_demonstration_splits == payload[5]
        calls == generate_relevant_instructions_gscan_oracle(command, sit, colors, nouns,
                    oracle_kwargs(opts.n_description_options, opts.demonstrate_target,
                        allow_demonstration_splits, FALSE, 16, FALSE,
                        opts.limit_verb_adverb))
        returned(found) ==
            LET instructions ==
                    [i \in DOMAIN found |-> found[i][1]]
                keys == [i \in DOMAIN instructions |-> join_words(instructions[i])]
            IN  {Outcome(None, s, payload, <<>>) :
                    s \in support_draws(instructions, keys,
                             sorted_example_indices_by_command, train_examples)}
    IN  UNION {IF c.error # None THEN {Raised(c.error, payload)} ELSE returned(c.value) :
                 c \in calls}

generate_random_instructions_find_support_in_any_layout(index, command, target_commands, sit, payload, opts) ==
    LET sorted_example_indices_by_command == payload[1]
        train_examples == payload[2]
        command_key == join_words(command)
        population == DOMAIN sorted_example_indices_by_command \ {command_key}
        random_instructions ==
            {p \in [1..opts.num_demos -> population] :
                \A i, j \in 1..opts.num_demos : i # j => p[i] # p[j]}
    IN  IF opts.num_demos > Cardinality(population)
        THEN {Raised("ValueError", payload)}
        ELSE UNION {{Outcome(None, s, payload, <<>>) :
                        s \in support_draws(r, [i \in DOMAIN r |-> join_str(r[i])],
                                 sorted_example_indices_by_command, train_examples)} :
                    r \in random_instructions}

\* the for loop of the lookup strategies: the supports are read off the drawn examples
supports_of(relevant_demos, train_examples) ==
    << [i \in DOMAIN relevant_demos |-> train_examples[relevant_demos[i] + 1].command],
       [i \in DOMAIN relevant_demos |-> train_examples[relevant_demos[i] + 1].target_commands],
       [i \in DOMAIN relevant_demos |-> train_examples[relevant_demos[i] + 1].situation] >>

\* the part the lookup strategies share: the bucket's indices under the query's own
\* command are left out (the command index is a dict, read once per candidate),
\* then min(len, num_demos) of the rest are drawn
draw_supports(possible_demos, command, payload, num_demos, replace) ==
    LET sorted_example_indices_by_command == payload[2]
        train_examples == payload[3]
        command_key == join_words(command)
    IN  IF possible_demos # <<>> /\ command_key \notin DOMAIN sorted_example_indices_by_command
        THEN {Raised("KeyError", payload)}
        ELSE LET remaining ==
                     SelectSeq(possible_demos, LAMBDA p : ~find_in_sorted_list(
                         sorted_example_indices_by_command[command_key], p))
             IN  {Outcome(None, supports_of(relevant_demos, train_examples), payload,
                          relevant_demos) :
                     relevant_demos \in choice(remaining, Min(Len(remaining), num_demos),
                                               replace)}

find_supports_with_same_agent_target_offset(index, command, target_commands, sit, payload, opts) ==
    LET key == <<x_offset(sit), y_offset(sit)>>
    IN  draw_supports(defaultdict_read(payload[1], key), command,
            [payload EXCEPT ![1] = defaultdict_after_read(@, key)], opts.num_demos, TRUE)

find_supports_with_any_target_object_in_same_position(index, command, target_commands, sit, payload, opts) ==
    LET key == <<sit.target_object.column, sit.target_object.row>>
    IN  draw_supports(defaultdict_read(payload[1], key), command,
            [payload EXCEPT ![1] = defaultdict_after_read(@, key)], opts.num_demos, TRUE)

find_supports_by_matching_object_in_same_diff_with_replacement(index, command, target_commands, sit, payload, opts) ==
    LET key == diff_and_description(sit)
    IN  draw_supports(defaultdict_read(payload[1], key), command,
            [payload EXCEPT ![1] = defaultdict_after_read(@, key)], opts.num_demos, TRUE)

find_supports_by_matching_object_in_same_diff(index, command, target_commands, sit, payload, opts) ==
    LET key == diff_and_description(sit)
    IN  draw_supports(defaultdict_read(payload[1], key), command,
            [payload EXCEPT ![1] = defaultdict_after_read(@, key)], opts.num_demos, FALSE)

find_supports_by_matching_environment_layout(index, command, target_commands, sit, payload, opts) ==
    LET environment_string == serialize_situation(sit)
    IN  IF environment_string \notin DOMAIN payload[1]
        THEN {Raised("KeyError", payload)}
        ELSE draw_supports(payload[1][environment_string], command, payload,
                 opts.num_demos, TRUE)

GenerationModes ==
    {"generate_oracle", "generate_find_matching", "random_find_matching",
     "find_by_environment_layout", "find_by_matching_same_object_in_same_diff",
     "find_by_matching_any_object_in_same_target_position",
     "find_by_matching_any_object_in_same_diff"}

GENERATION_STRATEGIES(mode, index, command, target_commands, sit, payload, opts) ==
    CASE mode = "generate_oracle" ->
            generate_relevant_supports_oracle(index, command, target_commands, sit, payload, opts)
      [] mode = "generate_find_matching" ->
            generate_instructions_find_support_in_any_layout(index, command, target_commands, sit, payload, opts)
      [] mode = "random_find_matching" ->
            generate_random_instructions_find_support_in_any_layout(index, command, target_commands, sit, payload, opts)
      [] mode = "find_by_environment_layout" ->
            find_supports_by_matching_environment_layout(index, command, target_commands, sit, payload, opts)
      [] mode = "find_by_matching_same_object_in_same_diff" ->
            find_supports_by_matching_object_in_same_diff(index, command, target_commands, sit, payload, opts)
      [] mode = "find_by_matching_any_object_in_same_target_position" ->
            find_supports_with_any_target_object_in_same_position(index, command, target_commands, sit, payload, opts)
      [] mode = "find_by_matching_any_object_in_same_diff" ->
            find_supports_with_same_agent_target_offset(index, command, target_commands, sit, payload, opts)

\* one call per example: the strategy's outcome with the result tuple put together
generate_supports_for_data_point(data_example, index, generation_mode, generation_payload, generation_options) ==
    {[raised |-> o.raised, error |-> o.error,
      result |-> <<data_example.command, data_example.target_commands,
                   data_example.situation, o.supports[1], o.supports[2], o.supports[3]>>,
      payload |-> o.payload, relevant_demos |-> o.relevant_demos] :
        o \in GENERATION_STRATEGIES(generation_mode, index, data_example.command,
                  data_example.target_commands, data_example.situation,
                  generation_payload, generation_options)}

\* PREPROCESSING_PAYLOAD_GENERATOR[mode](dataset, colors, nouns, ..., current_split, ...)
PREPROCESSING_PAYLOAD_GENERATOR(mode, train, colors, nouns, current_split) ==
    CASE mode = "generate_oracle" ->
            <<nouns, colors, SPLITS_ALLOW_ORACLE_DEMONSTRATIONS[current_split]>>
      [] mode \in {"generate_find_matching", "random_find_matching"} ->
            <<sort_indices_by_command(train), train, nouns, colors,
              SPLITS_ALLOW_ORACLE_DEMONSTRATIONS[current_split]>>
      [] mode = "find_by_environment_layout" ->
            <<sort_indices_by_serialized_situation(train), sort_indices_by_command(train), train>>
      [] mode = "find_by_matching_same_object_in_same_diff" ->
            <<sort_indices_by_target_diff_and_description(train),
              sort_indices_by_command(train), train>>
      [] mode = "find_by_matching_any_object_in_same_target_position" ->
            <<sort_indices_by_target_positions(train), sort_indices_by_command(train), train>>
      [] mode = "find_by_matching_any_object_in_same_diff" ->
            <<sort_indices_by_offsets(train), sort_indices_by_command(train), train>>

(********************* inputs of the pipeline runs *************************)
\* most training examples in the dataset
MaxTrain == 3

\* largest n handed to batched
MaxChunk == 2

Example(command, target_commands, sit) ==
    [command |-> command, target_commands |-> target_commands, situation |-> sit]

RedCircle == [size |-> 3, color |-> "red", shape |-> "circle"]

RedSquare == [size |-> 3, color |-> "red", shape |-> "square"]

YellowSquare == [size |-> 3, color |-> "yellow", shape |-> "square"]

Layout(agent_column, objects, target) ==
    [agent_pos |-> [row |-> 0, column |-> agent_column], placed_objects |-> objects,
     target_object |-> objects[target]]

\* the training examples a dataset is made of. The second shares the layout and the
\* target of the first under another command; the third has another object in the
\* first one's cell; the fourth has the first one's object in another cell at another
\* offset; the fifth has the first one's command and target cell in a larger layout
\* with the agent elsewhere.
TrainPool ==
    << Example(<<"walk", "to", "a", "red", "circle">>, <<"turn left", "walk", "turn left", "walk">>,
           Layout(GridSize - 1, <<PlacedObject(0, RedCircle)>>, 1)),
       Example(<<"pull", "a", "red", "circle">>, <<"turn left", "walk", "turn left", "walk", "pull">>,
           Layout(GridSize - 1, <<PlacedObject(0, RedCircle)>>, 1)),
       Example(<<"push", "a", "red", "square">>, <<"turn left", "walk", "turn left", "walk", "push">>,
           Layout(GridSize - 1, <<PlacedObject(0, RedSquare)>>, 1)),
       Example(<<"push", "a", "red", "circle">>, <<"walk", "push">>,
           Layout(0, <<PlacedObject(GridSize - 1, RedCircle)>>, 1)),
       Example(<<"walk", "to", "a", "red", "circle">>, <<>>,
           Layout(0, <<PlacedObject(GridSize - 1, RedSquare), PlacedObject(0, RedCircle)>>, 2)) >>

\* the examples of a held-out split: the first one's layout and command are in some
\* training sets, the second one's are in none
TestExamples ==
    << Example(<<"push", "a", "red", "circle">>, <<"turn left", "walk", "turn left", "walk", "push">>,
           Layout(GridSize - 1, <<PlacedObject(0, RedCircle)>>, 1)),
       Example(<<"walk", "to", "a", "yellow", "square">>, <<"turn right", "walk">>,
           Layout(GridSize - 1, <<PlacedObject(GridSize - 1, YellowSquare)>>, 1)) >>

\* the training sets: 1..MaxTrain examples of the pool, in the pool's order
TrainSets ==
    UNION {{[i \in 1..n |-> TrainPool[p[i]]] :
               p \in {q \in [1..n -> DOMAIN TrainPool] : \A i \in 1..(n - 1) : q[i] < q[i + 1]}} :
           n \in 1..MaxTrain}

\* d["examples"]: the examples of each split
Datasets == {[train |-> t, test |-> TestExamples] : t \in TrainSets}

\* the values of num_demos tried
NumDemosOptions == 0..MaxNumDemos

GenerationOptions(cp, n, lv, nd) ==
    [can_parallel |-> cp, n_description_options |-> n, demonstrate_target |-> TRUE,
     allow_any_example |-> FALSE, num_demos |-> nd, pick_random |-> FALSE,
     limit_verb_adverb |-> lv]

\* (generate_mode, kwargs): the shipped oracle configuration with can_parallel set,
\* the same on the sequential path, and the retrieval configurations
GenerationRuns ==
    {<<"generate_oracle", GenerationOptions(TRUE, Some(1), TRUE, 16)>>,
     <<"generate_find_matching", GenerationOptions(FALSE, <<>>, TRUE, 16)>>} \cup
    {<<"generate_oracle", GenerationOptions(FALSE, Some(1), TRUE, nd)>> : nd \in NumDemosOptions} \cup
    {<<mode, GenerationOptions(FALSE, <<>>, FALSE, nd)>> :
        mode \in GenerationModes \ {"generate_oracle", "generate_find_matching"},
        nd \in NumDemosOptions}

(************************ runs of the oracle *******************************)
NoObject == [row |-> 0, column |-> 0, size |-> 0, color |-> None, shape |-> None]

NoSituation == [agent_pos |-> [row |-> 0, column |-> 0], placed_objects |-> <<>>, target_object |-> NoObject]

NoOptions == [split |-> None]

NoResult == [error |-> None, value |-> <<>>]

NoLocals ==
    [filtered_sorted_other_description_words |-> <<>>, description_words_options |-> <<>>,
     support_instructions |-> <<>>]

\* no oracle call is under way
IdleOracle ==
    /\ pc = "idle"
    /\ query_instruction = <<>>
    /\ situation = NoSituation
    /\ options = NoOptions
    /\ relevant_instructions = NoResult
    /\ locals = NoLocals

\* an example of the split and the configured options reach the oracle
LoadQuery ==
    /\ pc = "idle"
    /\ \E sit \in Situations : \E q \in Queries(sit) : \E kw \in OracleOptions :
          /\ situation' = sit
          /\ query_instruction' = q
          /\ options' = kw
    /\ pc' = "loaded"
    /\ UNCHANGED <<relevant_instructions, locals>>
    /\ UNCHANGED outside_oracle

\* the end of the call: the list built by the loops is cut or drawn from
ReturnFrom(built) ==
    /\ locals' = built
    /\ relevant_instructions' \in oracle_returns(built.support_instructions, options)

\* the call generate_relevant_instructions_gscan_oracle(...)
CallOracle ==
    /\ pc = "loaded"
    /\ ReturnFrom(oracle_locals(query_instruction, situation, vocabulary_colors,
                                vocabulary_nouns, options))
    /\ pc' = "returned"
    /\ UNCHANGED <<query_instruction, situation, options>>
    /\ UNCHANGED outside_oracle

NextOracle == LoadQuery \/ CallOracle

(************************ runs of the pipeline *****************************)
IdlePipeline ==
    /\ status = "idle"
    /\ dataset = [train |-> <<>>, test |-> <<>>]
    /\ run_split = None
    /\ run_mode = None
    /\ run_options = [can_parallel |-> FALSE]
    /\ run_payload = <<>>
    /\ position = 0
    /\ yielded = <<>>
    /\ log = <<>>
    /\ exception = None
    /\ drawn_demos = <<>>
    /\ chunk_size = 1
    /\ batch = <<>>
    /\ files = <<>>

\* no parse_sparse_situation call is under way
NoLayoutCall == [world_encoding_scheme |-> None]

IdleCodec == parse_args = NoLayoutCall /\ grid = <<>>

\* no vocabulary is being constructed
NoVocabulary == [raised |-> None, constructed |-> FALSE]

IdleVocabulary == vocabulary_args = <<>> /\ vocabulary = NoVocabulary

\* no sort call has been made
NoSortCall == [called |-> FALSE]

NoSortedOptions == [returned |-> FALSE, value |-> <<>>]

\* the while loop is not being run
NoSortFrame ==
    [at |-> None, mode |-> None, indices_indexes |-> <<>>, option_indices_set |-> {},
     yielded |-> <<>>]

IdleSort ==
    sort_args = NoSortCall /\ sorted_options = NoSortedOptions /\ sort_frame = NoSortFrame

\* no is_prohibited_description call has been made
NoRuleCall == [called |-> FALSE]

NoRuleResult == [returned |-> FALSE, value |-> None]

IdleRule == rule_args = NoRuleCall /\ rule_result = NoRuleResult

\* no generate_description_words_options call has been made
NoDescriptionCall == [called |-> FALSE]

NoDescriptionOptions == [returned |-> FALSE, value |-> <<>>]

IdleDescriptions ==
    description_args = NoDescriptionCall /\ description_options = NoDescriptionOptions

\* the verbs the solver can be failing for in a run
SolverFailures == {{}, {"push"}}

\* main() has read the dataset and the configuration and reached a split
Init ==
    /\ status = "start"
    /\ dataset \in Datasets
    /\ run_split \in {"train", "test"}
    /\ \E run \in GenerationRuns : run_mode = run[1] /\ run_options = run[2]
    /\ run_payload = <<>>
    /\ position = 0
    /\ yielded = <<>>
    /\ log = <<>>
    /\ exception = None
    /\ drawn_demos = <<>>
    /\ chunk_size \in 1..MaxChunk
    /\ batch = <<>>
    /\ files = <<>>
    /\ unsolvable \in (IF run_mode = "generate_oracle" THEN SolverFailures ELSE {{}})
    /\ IdleOracle
    /\ IdleCodec
    /\ IdleVocabulary
    /\ IdleSort
    /\ IdleRule
    /\ IdleDescriptions

\* the examples of the split being generated
examples_set == dataset[run_split]

\* main(), lines 1861-1864: the payload of the split is built from the training set
PreparePayload ==
    /\ status = "start"
    /\ run_payload' = PREPROCESSING_PAYLOAD_GENERATOR(run_mode, dataset.train,
                      vocabulary_colors, vocabulary_nouns, run_split)
    /\ status' = "running"
    /\ UNCHANGED <<dataset, run_split, run_mode, run_options, position,
                   yielded, log, exception, drawn_demos, chunk_size, batch, files>>
    /\ UNCHANGED outside_pipeline

\* yield_metalearning_examples, lines 1173-1195: with can_parallel the arguments of
\* the pool's tasks come from map(lambda x, i: ..., enumerate(examples_set)); the
\* lambda takes two arguments and map hands it one, so the first task raises
\* TypeError in the consumer
DispatchParallel ==
    /\ status = "running"
    /\ run_options.can_parallel
    /\ IF examples_set = <<>>
       THEN status' = "done" /\ UNCHANGED exception
       ELSE status' = "aborted" /\ exception' = "TypeError"
    /\ UNCHANGED <<dataset, run_split, run_mode, run_options, run_payload,
                   position, yielded, log, drawn_demos, chunk_size, batch, files>>
    /\ UNCHANGED outside_pipeline

\* lines 1291-1311: what encode_metalearning_examples makes of one yielded example,
\* left uninterpreted
encode_metalearning_example(ml_example) == [encoded |-> ml_example]

\* a batch is handed over when the example after its last one has been taken
TakeIntoBatch_late(example) ==
    IF Len(batch) = chunk_size
    THEN files' = Append(files, batch) /\ batch' = <<example>>
    ELSE batch' = Append(batch, example) /\ UNCHANGED files

\* the same with the example put in front of the batch
TakeIntoBatch_in_front(example) ==
    IF Len(batch) + 1 = chunk_size
    THEN files' = Append(files, <<example>> \o batch) /\ batch' = <<>>
    ELSE batch' = <<example>> \o batch /\ UNCHANGED files

\* batched, lines 1723-1729, with main's loop body, lines 1871-1873: the example the
\* iterable hands over is taken into the batch; the batch that has reached n examples
\* is yielded and written to the next file
TakeIntoBatch(example) ==
    IF Len(batch) + 1 = chunk_size
    THEN files' = Append(files, Append(batch, example)) /\ batch' = <<>>
    ELSE batch' = Append(batch, example) /\ UNCHANGED files

\* yield_metalearning_examples, lines 1197-1211: one turn of the sequential loop, run
\* when batched asks the iterable for its next example. Nothing catches what the call
\* raises; an error returned is written and the example passed over; otherwise the
\* result is yielded, encoded and taken into the batch.
GenerateNext ==
    /\ status = "running"
    /\ ~run_options.can_parallel
    /\ position < Len(examples_set)
    /\ \E o \in generate_supports_for_data_point(examples_set[position + 1], position,
                    run_mode, run_payload, run_options) :
          /\ run_payload' = o.payload
          /\ drawn_demos' = o.relevant_demos
          /\ IF o.raised # None
             THEN /\ status' = "aborted"
                  /\ exception' = o.raised
                  /\ UNCHANGED <<position, yielded, log, batch, files>>
             ELSE /\ position' = position + 1
                  /\ IF o.error # None
                     THEN log' = Append(log, o.error) /\ UNCHANGED <<yielded, batch, files>>
                     ELSE /\ yielded' = Append(yielded, o.result)
                          /\ TakeIntoBatch(encode_metalearning_example(o.result))
                          /\ UNCHANGED log
                  /\ UNCHANGED <<status, exception>>
    /\ UNCHANGED <<dataset, run_split, run_mode, run_options, chunk_size>>
    /\ UNCHANGED outside_pipeline

\* the end of the loop with the batch being filled left unwritten
Finish_without_last_batch ==
    /\ status = "running"
    /\ ~run_options.can_parallel
    /\ position = Len(examples_set)
    /\ status' = "done"
    /\ batch' = <<>>
    /\ UNCHANGED <<dataset, run_split, run_mode, run_options, run_payload, position,
                   yielded, log, exception, drawn_demos, chunk_size, files>>
    /\ UNCHANGED outside_pipeline

\* the loop has gone through the examples of the split: the iterable is exhausted,
\* batched yields the batch it holds unless that is empty (lines 1724-1729) and main
\* writes it
Finish ==
    /\ status = "running"
    /\ ~run_options.can_parallel
    /\ position = Len(examples_set)
    /\ status' = "done"
    /\ IF batch # <<>>
       THEN files' = Append(files, batch) /\ batch' = <<>>
       ELSE UNCHANGED <<batch, files>>
    /\ UNCHANGED <<dataset, run_split, run_mode, run_options, run_payload,
                   position, yielded, log, exception, drawn_demos, chunk_size>>
    /\ UNCHANGED outside_pipeline

Next == PreparePayload \/ DispatchParallel \/ GenerateNext \/ Finish

Spec == Init /\ [][Next]_vars

InitOracle == IdleOracle /\ IdlePipeline /\ IdleCodec /\ IdleVocabulary /\ IdleSort /\ IdleRule /\ IdleDescriptions /\ unsolvable = {}

SpecOracle == InitOracle /\ [][NextOracle]_vars

(************************* situation layouts *******************************)
\* COLOR2IDX and NOUN2IDX, lines 1775-1776: {c: i + 1 for i, c in enumerate(colors)}
word2idx(words) ==
    [w \in Range(words) |-> (CHOOSE i \in DOMAIN words : words[i] = w)]

\* np.zeros([num]): at most ten channels are used
zeros(num) == SubSeq(<<0, 0, 0, 0, 0, 0, 0, 0, 0, 0>>, 1, num)

\* a[i] = x for a 0-based channel i
set_channel(a, i, x) == [a EXCEPT ![i + 1] = x]

\* lines 585-589 and 642-645: the agent's vector
agent_representation(sr, world_encoding_scheme, num_grid_channels) ==
    IF world_encoding_scheme = "sequence"
    THEN set_channel(set_channel(set_channel(set_channel(zeros(num_grid_channels),
             3, 1), 4, sr.agent_direction), 5, sr.agent_position.row),
             6, sr.agent_position.column)
    ELSE set_channel(set_channel(zeros(num_grid_channels),
             num_grid_channels - 2, 1), num_grid_channels - 1, sr.agent_direction)

\* lines 592-637: the vector appended for one placed object
object_representation(placed_object, color2idx, noun2idx, reascan_boxes) ==
    LET object_row == placed_object.position.row
        object_column == placed_object.position.column
        size == placed_object.object.size
        color == color2idx[placed_object.object.color]
    IN  IF reascan_boxes
        THEN IF placed_object.object.shape # "box"
             THEN <<size, color, noun2idx[placed_object.object.shape], 0, 0,
                    object_row, object_column, 0, 0, 0>>
             ELSE <<0, 0, 0, 0, 0, object_row, object_column, size, color, 1>>
        ELSE <<size, color, noun2idx[placed_object.object.shape], 0, 0,
               object_row, object_column>>

\* lines 653-679: the channels of its cell one placed object writes
place_object(cells, placed_object, color2idx, noun2idx, reascan_boxes) ==
    LET object_row == placed_object.position.row
        object_column == placed_object.position.column
        size == placed_object.object.size
        color == color2idx[placed_object.object.color]
    IN  IF reascan_boxes /\ placed_object.object.shape = "box"
        THEN [cells EXCEPT ![object_row][object_column] =
                 set_channel(set_channel(set_channel(@, 5, size), 6, color), 7, 1)]
        ELSE [cells EXCEPT ![object_row][object_column] =
                 set_channel(set_channel(set_channel(@, 0, size), 1, color),
                             2, noun2idx[placed_object.object.shape])]

\* lines 650-679: the loop over the placed objects
RECURSIVE place_objects(_, _, _, _, _)
place_objects(cells, placed_objects, color2idx, noun2idx, reascan_boxes) ==
    IF placed_objects = <<>> THEN cells
    ELSE place_objects(
             place_object(cells, Head(placed_objects), color2idx, noun2idx, reascan_boxes),
             Tail(placed_objects), color2idx, noun2idx, reascan_boxes)

\* the two channels of the cumulative sums of ones along the rows and the columns are
\* appended to every cell, and the cells are listed row by row
add_positional_information_to_grid(cells, grid_size) ==
    [k \in 1..(grid_size * grid_size) |->
        LET row == (k - 1) \div grid_size
            column == (k - 1) % grid_size
        IN  cells[row][column] \o <<row + 1, column + 1>>]

parse_sparse_situation(sr, grid_size, color2idx, noun2idx, world_encoding_scheme, reascan_boxes) ==
    IF world_encoding_scheme = "sequence"
    THEN LET num_grid_channels == 7 + (IF reascan_boxes THEN 3 ELSE 0)
         IN  <<agent_representation(sr, "sequence", num_grid_channels)>> \o
             [i \in DOMAIN sr.placed_objects |->
                 object_representation(sr.placed_objects[i], color2idx, noun2idx,
                                       reascan_boxes)]
    ELSE LET num_grid_channels == 5 + (IF reascan_boxes THEN 3 ELSE 0)
             empty == [row \in 0..(grid_size - 1) |->
                          [column \in 0..(grid_size - 1) |-> zeros(num_grid_channels)]]
             with_agent ==
                 [empty EXCEPT ![sr.agent_position.row][sr.agent_position.column] =
                     agent_representation(sr, "all", num_grid_channels)]
         IN  add_positional_information_to_grid(
                 place_objects(with_agent, sr.placed_objects, color2idx, noun2idx,
                               reascan_boxes), grid_size)

(********************* inputs of the layout calls **************************)
\* most objects placed in a situation that is laid out
MaxPlaced == 1

\* the directions the agent is laid out with, of 0..3
LayoutDirections == {0, 3}

\* the kinds of object placed; the last is a container
LayoutKinds ==
    << [size |-> 1, color |-> "red", shape |-> "circle"],
       [size |-> 2, color |-> "yellow", shape |-> "square"],
       [size |-> 3, color |-> "blue", shape |-> "box"] >>

LayoutCell(k) == [row |-> k \div GridSize, column |-> k % GridSize]

LayoutCells == {LayoutCell(k) : k \in 0..(GridSize * GridSize - 1)}

\* slot s is a kind at a cell
LayoutSlot(s) ==
    [position |-> LayoutCell(s \div Len(LayoutKinds)),
     object |-> LayoutKinds[(s % Len(LayoutKinds)) + 1]]

\* the lists of placed objects: no two objects other than containers share a cell
LayoutObjectLists ==
    UNION {{[i \in 1..n |-> LayoutSlot(q[i])] :
               q \in {r \in [1..n -> 0..(GridSize * GridSize * Len(LayoutKinds) - 1)] :
                         /\ \A i \in 1..(n - 1) : r[i] < r[i + 1]
                         /\ \A i, j \in 1..n :
                               (i < j /\ LayoutSlot(r[i]).position = LayoutSlot(r[j]).position)
                                   => LayoutSlot(r[j]).object.shape = "box"}} :
           n \in 0..MaxPlaced}

\* Situation.to_dict(): the fields parse_sparse_situation reads
LayoutSituations ==
    {[agent_position |-> a, agent_direction |-> d, placed_objects |-> o] :
        a \in LayoutCells, d \in LayoutDirections, o \in LayoutObjectLists}

HasBox(sr) == \E i \in DOMAIN sr.placed_objects : sr.placed_objects[i].object.shape = "box"

\* (situation, world_encoding_scheme, reascan_boxes): containers are in the data only
\* when reascan_boxes is set
LayoutCalls ==
    {[situation |-> sr, world_encoding_scheme |-> scheme, reascan_boxes |-> boxes] :
        sr \in LayoutSituations, scheme \in {"sequence", "all"}, boxes \in BOOLEAN} \
    {c \in [situation : LayoutSituations, world_encoding_scheme : {"sequence", "all"},
            reascan_boxes : {FALSE}] : HasBox(c.situation)}

\* the nouns of the data: with containers the vocabulary holds "box" too
layout_nouns == vocabulary_nouns \o <<"box">>

\* a call parse_sparse_situation(situation, grid_size, COLOR2IDX, NOUN2IDX, scheme, boxes)
ParseSituation ==
    /\ parse_args.world_encoding_scheme = None
    /\ \E call \in LayoutCalls :
          /\ parse_args' = call
          /\ grid' = parse_sparse_situation(call.situation, GridSize,
                         word2idx(vocabulary_colors), word2idx(layout_nouns),
                         call.world_encoding_scheme, call.reascan_boxes)
    /\ UNCHANGED <<oracle_vars, pipeline_vars, vocabulary_vars, sort_vars, rule_vars, description_vars, unsolvable>>

InitCodec == IdleOracle /\ IdlePipeline /\ IdleCodec /\ IdleVocabulary /\ IdleSort /\ IdleRule /\ IdleDescriptions /\ unsolvable = {}

NextCodec == ParseSituation

SpecCodec == InitCodec /\ [][NextCodec]_vars

(************************ vocabulary construction **************************)
\* list(d.keys()) of a dict held as a function: its keys, each once
RECURSIVE keys(_)
keys(d) ==
    IF DOMAIN d = {} THEN <<>>
    ELSE LET k == CHOOSE w \in DOMAIN d : TRUE
         IN  <<k>> \o keys([w \in DOMAIN d \ {k} |-> d[w]])

\* the key lists of the first five bindings only
all_words_without_sizes(intransitive_verbs, transitive_verbs, adverbs, nouns, color_adjectives, size_adjectives) ==
    keys(intransitive_verbs) \o keys(transitive_verbs) \o keys(adverbs) \o keys(nouns)
        \o keys(color_adjectives)

\* Vocabulary.__init__, lines 54-61
all_words(intransitive_verbs, transitive_verbs, adverbs, nouns, color_adjectives, size_adjectives) ==
    keys(intransitive_verbs) \o keys(transitive_verbs) \o keys(adverbs) \o keys(nouns)
        \o keys(color_adjectives) \o keys(size_adjectives)

\* Vocabulary.__init__, lines 54-71: the assertion on the word lists; the bindings are
\* stored as they were handed over
Vocabulary(intransitive_verbs, transitive_verbs, adverbs, nouns, color_adjectives, size_adjectives) ==
    LET words == all_words(intransitive_verbs, transitive_verbs, adverbs, nouns,
                           color_adjectives, size_adjectives)
        all_unique_words == Range(words)
    IN  IF Len(words) = Cardinality(all_unique_words)
        THEN [raised |-> None, constructed |-> TRUE,
              _intransitive_verbs |-> intransitive_verbs,
              _transitive_verbs |-> transitive_verbs, _adverbs |-> adverbs,
              _nouns |-> nouns, _color_adjectives |-> color_adjectives,
              _size_adjectives |-> size_adjectives]
        ELSE [raised |-> "AssertionError", constructed |-> FALSE]

\* the surface words the bindings are made of
WordPool == {"walk", "red"}

\* the bindings of one category: some words of the pool, each with a meaning
Bindings == {[w \in S |-> w] : S \in SUBSET WordPool}

\* a call Vocabulary(intransitive_verbs, ..., size_adjectives)
ConstructVocabulary ==
    /\ vocabulary_args = <<>>
    /\ \E a \in [1..6 -> Bindings] :
          /\ vocabulary_args' = a
          /\ vocabulary' = Vocabulary(a[1], a[2], a[3], a[4], a[5], a[6])
    /\ UNCHANGED <<oracle_vars, pipeline_vars, codec_vars, sort_vars, rule_vars, description_vars, unsolvable>>

InitVocabulary == IdleOracle /\ IdlePipeline /\ IdleCodec /\ IdleVocabulary /\ IdleSort /\ IdleRule /\ IdleDescriptions /\ unsolvable = {}

NextVocabulary == ConstructVocabulary

SpecVocabulary == InitVocabulary /\ [][NextVocabulary]_vars

(********************** ordering of the alternatives ***********************)
MaxOptions == 3

\* the alternatives a call can be handed: the descriptor words of an object and
\* the object, which the ordering does not look at
OptionPool ==
    { << <<"red", "square">>, "o1" >>,
      << <<"red", "circle">>, "o2" >>,
      << <<"yellow", "circle">>, "o3" >>,
      << <<"small", "yellow", "square">>, "o4" >>,
      << <<"big", "blue", "cylinder">>, "o5" >> }

\* the descriptor words of the true target
SortQueries == { <<"red", "circle">>, <<"small", "red", "circle">>, <<"square">> }

SortCalls ==
    { [called |-> TRUE, description_words_options |-> o, query_description_words |-> q] :
        o \in UNION {[1..n -> OptionPool] : n \in 0..MaxOptions}, q \in SortQueries }

\* a call list(sort_description_words_by_query_match(...)), as on lines 438-445
SortOptions ==
    /\ ~sort_args.called
    /\ \E call \in SortCalls :
          /\ sort_args' = call
          /\ sorted_options' =
                 [returned |-> TRUE,
                  value |-> sort_description_words_by_query_match(
                                call.description_words_options,
                                call.query_description_words,
                                vocabulary_colors, vocabulary_nouns)]
    /\ UNCHANGED <<oracle_vars, pipeline_vars, codec_vars, vocabulary_vars, rule_vars, description_vars, unsolvable,
                   sort_frame>>

InitSort == IdleOracle /\ IdlePipeline /\ IdleCodec /\ IdleVocabulary /\ IdleSort /\ IdleRule /\ IdleDescriptions /\ unsolvable = {}

NextSort == SortOptions

SpecSort == InitSort /\ [][NextSort]_vars

(***************** calls of the description options ************************)
MaxDescribed == 3

\* the objects stand in one row, west to east
DescribedColumns(n) ==
    {cs \in [1..n -> 0..(MaxDescribed - 1)] : \A i \in 1..(n - 1) : cs[i] < cs[i + 1]}

\* red circles of three sizes, and a red and a yellow square
DescribedKinds ==
    {[size |-> sz, color |-> "red", shape |-> "circle"] : sz \in 1..3} \cup
    {[size |-> 2, color |-> "red", shape |-> "square"],
     [size |-> 2, color |-> "yellow", shape |-> "square"]}

DescribedObjectLists ==
    UNION {{[i \in 1..n |->
                [row |-> 1, column |-> cs[i], size |-> kinds[i].size,
                 color |-> kinds[i].color, shape |-> kinds[i].shape]] :
               cs \in DescribedColumns(n), kinds \in [1..n -> DescribedKinds]} :
           n \in 1..MaxDescribed}

\* a situation and the descriptor words of a query for its target
DescriptionCalls ==
    UNION {{[called |-> TRUE,
             situation |-> [agent_pos |-> [row |-> 0, column |-> 0], placed_objects |-> os,
                            target_object |-> os[t]],
             description_words |-> <<os[t].color, os[t].shape>>] :
               t \in DOMAIN os} : os \in DescribedObjectLists}

\* a call generate_description_words_options(situation, description_words)
DescribeOptions ==
    /\ ~description_args.called
    /\ \E call \in DescriptionCalls :
          /\ description_args' = call
          /\ description_options' =
                 [returned |-> TRUE,
                  value |-> generate_description_words_options(call.situation,
                                call.description_words)]
    /\ UNCHANGED <<oracle_vars, pipeline_vars, codec_vars, vocabulary_vars, sort_vars,
                   rule_vars, unsolvable>>

InitDescriptions == IdleOracle /\ IdlePipeline /\ IdleCodec /\ IdleVocabulary /\ IdleSort /\ IdleRule /\ IdleDescriptions /\ unsolvable = {}

NextDescriptions == DescribeOptions

SpecDescriptions == InitDescriptions /\ [][NextDescriptions]_vars

(********************** calls of the rule check ****************************)
\* the words the rules look for, in the order a description holds them
RuleWords == <<"push", "small", "yellow", "square">>

RuleLetters == <<"B", "C", "D", "E", "F">>

\* the sub-lists of a list, in its order
SubLists(l) ==
    {SelectSeq([i \in DOMAIN l |-> i], LAMBDA i : i \in S) : S \in SUBSET DOMAIN l}

Picked(l, positions) == [i \in DOMAIN positions |-> l[positions[i]]]

\* the agent stands in the middle of the northern row of a grid three cells wide, the
\* target in the southern row west or east of it
RuleAgent == [row |-> 0, column |-> 1]

RuleTargets ==
    {[row |-> 1, column |-> c, size |-> sz, color |-> co, shape |-> sh] :
        c \in {0, 2}, sz \in {2, 3}, co \in {"red", "yellow"}, sh \in {"circle", "square"}}

RuleCalls ==
    {[called |-> TRUE, agent_pos |-> RuleAgent, target_object |-> t,
      description_words |-> Picked(RuleWords, w),
      allow_demonstration_splits |-> Picked(RuleLetters, a)] :
        t \in RuleTargets, w \in SubLists(RuleWords), a \in SubLists(RuleLetters)}

\* a call is_prohibited_description(agent_pos, target_object, description_words, ...)
CheckRules ==
    /\ ~rule_args.called
    /\ \E call \in RuleCalls :
          /\ rule_args' = call
          /\ rule_result' =
                 [returned |-> TRUE,
                  value |-> is_prohibited_description(call.agent_pos, call.target_object,
                                call.description_words, call.allow_demonstration_splits)]
    /\ UNCHANGED <<oracle_vars, pipeline_vars, codec_vars, vocabulary_vars, sort_vars,
                   description_vars, unsolvable>>

InitRule == IdleOracle /\ IdlePipeline /\ IdleCodec /\ IdleVocabulary /\ IdleSort /\ IdleRule /\ IdleDescriptions /\ unsolvable = {}

NextRule == CheckRules

SpecRule == InitRule /\ [][NextRule]_vars

(****************** the while loop of the sort, step by step ***************)
\* the condition of the while on lines 293-300
sort_loop_goes_on(call, frame) ==
    \E m \in DOMAIN frame.indices_indexes :
        frame.indices_indexes[m]
            < Len(sort_indices_indexes_array(call.description_words_options,
                                             call.query_description_words)[m])

\* lines 246-291: the function is called and reaches the while
EnterSortLoop ==
    /\ ~sort_args.called
    /\ \E call \in SortCalls :
          /\ sort_args' = call
          /\ sort_frame' =
                 [at |-> "while", mode |-> "color",
                  indices_indexes |-> [color |-> 0, object |-> 0, size |-> 0],
                  option_indices_set |-> DOMAIN call.description_words_options,
                  yielded |-> <<>>]
    /\ UNCHANGED <<oracle_vars, pipeline_vars, codec_vars, vocabulary_vars, rule_vars, description_vars, unsolvable,
                   sorted_options>>

\* one iteration in which an option that was taken or does not match is skipped and
\* the cursor stays where it is
SortLoopStep_without_advance ==
    /\ sort_frame.at = "while"
    /\ sort_loop_goes_on(sort_args, sort_frame)
    /\ LET mode == sort_frame.mode
           arr == sort_indices_indexes_array(sort_args.description_words_options,
                                             sort_args.query_description_words)
           matches == sort_option_matches(sort_args.description_words_options,
                                          sort_args.query_description_words)
       IN  IF sort_frame.indices_indexes[mode] >= Len(arr[mode])
           THEN sort_frame' = [sort_frame EXCEPT !.mode = next_mode[mode]]
           ELSE LET possible_option == arr[mode][sort_frame.indices_indexes[mode] + 1]
                IN  IF \/ possible_option \notin sort_frame.option_indices_set
                       \/ ~matches[mode][possible_option]
                    THEN sort_frame' = sort_frame
                    ELSE sort_frame' =
                             [sort_frame EXCEPT
                                 !.yielded = Append(@,
                                     sort_args.description_words_options[possible_option]),
                                 !.option_indices_set = @ \ {possible_option},
                                 !.indices_indexes[mode] = @ + 1,
                                 !.mode = next_mode[mode]]
    /\ UNCHANGED <<oracle_vars, pipeline_vars, codec_vars, vocabulary_vars, rule_vars, description_vars, unsolvable,
                   sort_args, sorted_options>>

\* lines 293-327: one iteration of the while
SortLoopStep ==
    /\ sort_frame.at = "while"
    /\ sort_loop_goes_on(sort_args, sort_frame)
    /\ LET mode == sort_frame.mode
           arr == sort_indices_indexes_array(sort_args.description_words_options,
                                             sort_args.query_description_words)
           matches == sort_option_matches(sort_args.description_words_options,
                                          sort_args.query_description_words)
       IN  IF sort_frame.indices_indexes[mode] >= Len(arr[mode])
           THEN sort_frame' = [sort_frame EXCEPT !.mode = next_mode[mode]]
           ELSE LET possible_option == arr[mode][sort_frame.indices_indexes[mode] + 1]
                IN  IF \/ possible_option \notin sort_frame.option_indices_set
                       \/ ~matches[mode][possible_option]
                    THEN sort_frame' =
                             [sort_frame EXCEPT !.indices_indexes[mode] = @ + 1]
                    ELSE sort_frame' =
                             [sort_frame EXCEPT
                                 !.yielded = Append(@,
                                     sort_args.description_words_options[possible_option]),
                                 !.option_indices_set = @ \ {possible_option},
                                 !.indices_indexes[mode] = @ + 1,
                                 !.mode = next_mode[mode]]
    /\ UNCHANGED <<oracle_vars, pipeline_vars, codec_vars, vocabulary_vars, rule_vars, description_vars, unsolvable,
                   sort_args, sorted_options>>

\* the condition of the while is false: the generator is exhausted and list(...) on
\* lines 438-445 has what it yielded
LeaveSortLoop ==
    /\ sort_frame.at = "while"
    /\ ~sort_loop_goes_on(sort_args, sort_frame)
    /\ sort_frame' = [sort_frame EXCEPT !.at = "end"]
    /\ sorted_options' = [returned |-> TRUE, value |-> sort_frame.yielded]
    /\ UNCHANGED <<oracle_vars, pipeline_vars, codec_vars, vocabulary_vars, rule_vars, description_vars, unsolvable,
                   sort_args>>

InitSortLoop == InitSort

NextSortLoop == EnterSortLoop \/ SortLoopStep \/ LeaveSortLoop

\* the interpreter keeps running the loop
SpecSortLoop == InitSortLoop /\ [][NextSortLoop]_vars /\ WF_vars(NextSortLoop)

(******************* properties of the oracle runs *************************)
Returned == pc = "returned" /\ relevant_instructions.error = None

Supports == relevant_instructions.value

QueryDescriptionWords ==
    query_description_words(query_instruction, vocabulary_colors, vocabulary_nouns)

\* C1: with allow_any_example false, no returned (instruction, target) pair matches
\* a rule B..F, evaluated on the agent position, the pair's target and the support
\* instruction's words, whose letter is not in the split's waiver list.
C1_NoProhibitedSupport ==
    (Returned /\ ~options.allow_any_example) =>
        \A i \in DOMAIN Supports :
            is_prohibited_description(situation.agent_pos, Supports[i][2], Supports[i][1],
                options.allow_demonstration_splits) = None

\* C2: no returned pair has an instruction equal to the query's token sequence,
\* whatever the options.
C2_NoSupportEqualsQuery ==
    Returned => \A i \in DOMAIN Supports : Supports[i][1] # query_instruction

\* C2 witness: the oracle returned supports for the true target under the query's own
\* description, one of the combinations tried rebuilds the query, and it was left out.
C2_Witness ==
    /\ Returned
    /\ \E i \in DOMAIN Supports :
          /\ Supports[i][2] = situation.target_object
          /\ words_in(Supports[i][1], vocabulary_colors \o vocabulary_nouns \o size_words)
                = QueryDescriptionWords
    /\ \E c \in Range(oracle_adverb_verb_combos(query_instruction, options)) :
          /\ c[1] \o <<"a">> \o QueryDescriptionWords \o c[2] = query_instruction
          /\ is_prohibited_action_adverb_combo(c[1], c[2]) = None

\* the true target matches one of the rules B..F (no waiver applies to it) and an
\* alternative is left after filtering
TargetSetAside ==
    /\ is_prohibited_description(situation.agent_pos, situation.target_object,
           QueryDescriptionWords, <<>>) # None
    /\ locals.filtered_sorted_other_description_words # <<>>

\* C6: with allow_any_example false and demonstrate_target true the true target, under
\* the query's descriptor words, is the first option (the first supports are its own),
\* unless it matches a rule B..F and an alternative survives filtering: then no support
\* targets it. With a single placed object every support targets that object.
C6_TargetFirstUnlessSetAside ==
    (Returned /\ ~options.allow_any_example /\ options.demonstrate_target
        /\ ~options.pick_random) =>
        /\ TargetSetAside => \A i \in DOMAIN Supports : Supports[i][2] # situation.target_object
        /\ (~TargetSetAside /\ Supports # <<>>) =>
              /\ Supports[1][2] = situation.target_object
              /\ words_in(Supports[1][1], vocabulary_colors \o vocabulary_nouns \o size_words)
                    = QueryDescriptionWords
        /\ Len(situation.placed_objects) = 1 =>
              \A i \in DOMAIN Supports : Supports[i][2] = situation.placed_objects[1]

\* C6 witness: the split waives the rule the true target matches, an alternative
\* survives, and the supports returned are all for the alternative.
C6_Witness ==
    /\ Returned /\ ~options.allow_any_example /\ options.demonstrate_target
    /\ ~options.pick_random
    /\ TargetSetAside
    /\ is_prohibited_description(situation.agent_pos, situation.target_object,
           QueryDescriptionWords, options.allow_demonstration_splits) = None
    /\ Supports # <<>>

\* position of a support's target in the list opts of description options
OptionRank(opts, support) == CHOOSE i \in DOMAIN opts : opts[i][2] = support[2]

\* position of a support's verb phrase in the fixed verb list
VerbRank(support) ==
    IF support[1][1] = "walk" THEN 1 ELSE IF support[1][1] = "push" THEN 2 ELSE 3

\* position of a support's adverb phrase in the fixed adverb list (cautiously is last)
AdverbRank(support) ==
    LET last == support[1][Len(support[1])]
    IN  IF last = "while spinning" THEN 1
        ELSE IF last = "while zigzagging" THEN 2
        ELSE IF last = "hesitantly" THEN 3
        ELSE IF last = "cautiously" THEN 5
        ELSE 4

PriorityBefore(opts, x, y) ==
    LET ox == OptionRank(opts, x)
        oy == OptionRank(opts, y)
    IN  \/ ox < oy
        \/ /\ ox = oy
           /\ \/ VerbRank(x) < VerbRank(y)
              \/ VerbRank(x) = VerbRank(y) /\ AdverbRank(x) < AdverbRank(y)

\* what the oracle returns for the same inputs with num_demos out of reach
UnboundedResults ==
    oracle_returns(locals.support_instructions, [options EXCEPT !.num_demos = 10000])

\* C7: with pick_random false the result for num_demos = k is the first min(k, L)
\* elements of the result for unbounded num_demos, and that list is ordered
\* description-option-major, then by verb, then by adverb.
C7_TruncationAfterOrdering ==
    (Returned /\ ~options.pick_random) =>
        \A full \in UnboundedResults :
            /\ full.error = None
            /\ Supports = SubSeq(full.value, 1, Min(options.num_demos, Len(full.value)))
            /\ \A i \in 1..(Len(full.value) - 1) :
                  PriorityBefore(locals.description_words_options, full.value[i],
                                 full.value[i + 1])

\* C7 witness: num_demos cut the list, and the part kept spans two description options.
C7_Witness ==
    /\ Returned /\ ~options.pick_random
    /\ \A full \in UnboundedResults : Len(Supports) < Len(full.value)
    /\ \E i, j \in DOMAIN Supports : Supports[i][2] # Supports[j][2]

(******************* claims about the retrieval strategies *****************)
LookupModes ==
    {"find_by_environment_layout", "find_by_matching_same_object_in_same_diff",
     "find_by_matching_any_object_in_same_diff",
     "find_by_matching_any_object_in_same_target_position"}

TrainIndices == 0..(Len(dataset.train) - 1)

TrainExample(i) == dataset.train[i + 1]

SameCell(a, b) == a.row = b.row /\ a.column = b.column

SameOffset(s, t) ==
    /\ s.target_object.column - s.agent_pos.column = t.target_object.column - t.agent_pos.column
    /\ s.target_object.row - s.agent_pos.row = t.target_object.row - t.agent_pos.row

SameObject(a, b) == a.size = b.size /\ a.shape = b.shape /\ a.color = b.color

\* the training examples with e's target cell whose command is not e's
CandidatesInSamePosition(e) ==
    {i \in TrainIndices :
        /\ SameCell(TrainExample(i).situation.target_object, e.situation.target_object)
        /\ TrainExample(i).command # e.command}

\* C3: find_by_matching_any_object_in_same_target_position returns exactly num_demos
\* supports whenever at least one candidate remains after exclusion.
C3_ExactlyNumDemosWithReplacement ==
    run_mode = "find_by_matching_any_object_in_same_target_position" =>
        \A k \in DOMAIN yielded :
            CandidatesInSamePosition(examples_set[k]) # {} =>
                Len(yielded[k][4]) = run_options.num_demos

\* the training examples with e's offset and e's target attributes
SameDiffBucket(e) ==
    {i \in TrainIndices :
        /\ SameOffset(TrainExample(i).situation, e.situation)
        /\ SameObject(TrainExample(i).situation.target_object, e.situation.target_object)}

\* the last call returned, and drawn_demos and the last result are its own
LastCallReturned == position > 0 /\ exception = None /\ Len(yielded) = position

\* C4: find_by_matching_same_object_in_same_diff returns only training examples of
\* the query's offset and target size, shape and color, none of them twice, so at
\* most as many as the bucket holds and at most num_demos.
C4_SameDiffSameObjectNoRepeat ==
    (run_mode = "find_by_matching_same_object_in_same_diff" /\ LastCallReturned) =>
        LET e == examples_set[position]
            r == yielded[position]
        IN  /\ Len(r[4]) = Len(drawn_demos) /\ Len(r[5]) = Len(drawn_demos)
            /\ Len(r[6]) = Len(drawn_demos)
            /\ \A i \in DOMAIN drawn_demos :
                  /\ drawn_demos[i] \in SameDiffBucket(e)
                  /\ r[4][i] = TrainExample(drawn_demos[i]).command
                  /\ r[5][i] = TrainExample(drawn_demos[i]).target_commands
                  /\ r[6][i] = TrainExample(drawn_demos[i]).situation
            /\ \A i, j \in DOMAIN drawn_demos : i # j => drawn_demos[i] # drawn_demos[j]
            /\ Len(drawn_demos) <= Cardinality(SameDiffBucket(e))
            /\ Len(drawn_demos) <= run_options.num_demos

\* C4 witness: two different examples of the bucket were returned while the training
\* set holds an example with the query's target object at another offset.
C4_Witness ==
    /\ run_mode = "find_by_matching_same_object_in_same_diff" /\ LastCallReturned
    /\ Len(drawn_demos) >= 2
    /\ \E i \in TrainIndices :
          /\ SameObject(TrainExample(i).situation.target_object,
                        examples_set[position].situation.target_object)
          /\ ~SameOffset(TrainExample(i).situation, examples_set[position].situation)

\* the commands of the training set other than e's: the keys that can be drawn
OtherCommands(e) == {TrainExample(i).command : i \in TrainIndices} \ {e.command}

\* C5: random_find_matching returns exactly num_demos supports when the command
\* index holds at least num_demos keys other than the query's.
C5_RandomFindMatchingReturnsNumDemos ==
    run_mode = "random_find_matching" =>
        \A k \in DOMAIN yielded :
            Cardinality(OtherCommands(examples_set[k])) >= run_options.num_demos =>
                Len(yielded[k][4]) = run_options.num_demos

\* no training example has e's command: the command index has no bucket for it
CommandMiss(e) == \A i \in TrainIndices : TrainExample(i).command # e.command

\* no training example falls under e's key in the index the strategy consults
PrimaryMiss(e) ==
    \A i \in TrainIndices :
        CASE run_mode = "find_by_environment_layout" ->
                serialize_situation(TrainExample(i).situation) # serialize_situation(e.situation)
          [] run_mode = "find_by_matching_same_object_in_same_diff" -> i \notin SameDiffBucket(e)
          [] run_mode = "find_by_matching_any_object_in_same_diff" ->
                ~SameOffset(TrainExample(i).situation, e.situation)
          [] OTHER ->
                ~SameCell(TrainExample(i).situation.target_object, e.situation.target_object)

\* C8: in the lookup strategies a missing bucket, under the primary key or under the
\* query's command, is an empty candidate list: the call that meets one does not raise.
C8_LookupMissIsEmptyBucket ==
    (run_mode \in LookupModes /\ status = "aborted") =>
        ~(PrimaryMiss(examples_set[position + 1]) \/ CommandMiss(examples_set[position + 1]))

\* C9 as stated: no example is emitted with an empty support list; one that gets no
\* usable support is dropped and logged under every strategy.
C9_NoEmptySupportListEmitted ==
    \A k \in DOMAIN yielded : yielded[k][4] # <<>>

\* the oracle returns no instruction for e under the payload of the run
OracleReturnsNothing(e) ==
    \E c \in generate_relevant_instructions_gscan_oracle(e.command, e.situation,
                 run_payload[1], run_payload[2],
                 oracle_kwargs(run_options.n_description_options,
                     run_options.demonstrate_target, run_payload[3],
                     run_options.allow_any_example, run_options.num_demos,
                     run_options.pick_random, run_options.limit_verb_adverb)) :
        c.error = None /\ c.value = <<>>

\* C9 amended: only generate_oracle skips. On the sequential path an example for
\* which the oracle returns no instruction is not yielded, one message is written for
\* it and the loop goes on to the next example; the yielded results are those of the
\* other examples, in order, each with supports. A retrieval strategy returns no
\* error: every example gone through is yielded, with empty lists when nothing was
\* found, and nothing is written.
C9_OnlyOracleSkips ==
    /\ (run_mode = "generate_oracle" /\ status \in {"running", "done"}
            /\ ~run_options.can_parallel) =>
          LET gone == SubSeq(examples_set, 1, position)
              kept == SelectSeq(gone, LAMBDA e : ~OracleReturnsNothing(e))
          IN  /\ Len(log) = Len(gone) - Len(kept)
              /\ Len(yielded) = Len(kept)
              /\ \A k \in DOMAIN yielded :
                    yielded[k][1] = kept[k].command /\ yielded[k][4] # <<>>
    /\ (run_mode # "generate_oracle" /\ status # "start") =>
          /\ log = <<>>
          /\ Len(yielded) = position
          /\ \A k \in DOMAIN yielded : yielded[k][1] = examples_set[k].command

\* C9 witness: the oracle returned nothing for an example, the example was dropped
\* with a message, and the loop went on through the next example to the end.
C9_Witness ==
    /\ run_mode = "generate_oracle" /\ status = "done"
    /\ Len(log) >= 2 /\ Len(yielded) + Len(log) = Len(examples_set)
    /\ OracleReturnsNothing(examples_set[1])

\* C10: a fault raised while the supports of one example are generated is caught
\* for that example: it is logged and the run goes on.
C10_FaultCaughtPerItem ==
    exception \in {"KeyError", "ValueError", "AssertionError"} =>
        (status # "aborted" /\ log # <<>>)

(***************** properties of the parallel path **************************)
\* the lists the sequential loop can yield for examples i+1.. under payload; a run
\* that raises has yielded what came before
RECURSIVE sequential_yields(_, _, _, _, _)
sequential_yields(examples, i, mode, payload, opts) ==
    IF i = Len(examples) THEN {<<>>}
    ELSE UNION {IF o.raised # None THEN {<<>>}
                ELSE {IF o.error # None THEN rest ELSE <<o.result>> \o rest :
                         rest \in sequential_yields(examples, i + 1, mode, o.payload, opts)} :
                o \in generate_supports_for_data_point(examples[i + 1], i, mode, payload, opts)}

SameMultiset(a, b) ==
    /\ Len(a) = Len(b)
    /\ \A x \in Range(a) :
          Cardinality({i \in DOMAIN a : a[i] = x}) = Cardinality({i \in DOMAIN b : b[i] = x})

\* C11: with can_parallel set, one task per example of the split is dispatched and
\* run, and the results yielded are, as a multiset, those the sequential loop yields
\* for the same examples, payload and options.
C11_ParallelYieldsSequentialResults ==
    (run_options.can_parallel /\ status \in {"done", "aborted"}) =>
        /\ status = "done"
        /\ \E ys \in sequential_yields(examples_set, 0, run_mode, run_payload, run_options) :
              SameMultiset(yielded, ys)

(****************** properties of the sequential path ***********************)
\* the examples gone through that were yielded, as an increasing list of positions
YieldedFrom(f) ==
    /\ \A k \in 1..(Len(yielded) - 1) : f[k] < f[k + 1]
    /\ \A k \in DOMAIN yielded :
          /\ yielded[k][1] = examples_set[f[k]].command
          /\ yielded[k][2] = examples_set[f[k]].target_commands
          /\ yielded[k][3] = examples_set[f[k]].situation

\* the examples of the files in file-number order, then those of the batch being filled
Batched == Flatten(files) \o batch

\* C12: on the sequential path the examples yielded are a subsequence of the split's
\* examples in corpus order, and the files in file-number order (followed by the
\* batch being filled) hold the encoded examples in the order they were yielded.
C12_SequentialKeepsCorpusOrder ==
    (~run_options.can_parallel /\ status # "start") =>
        /\ \E f \in [DOMAIN yielded -> 1..position] : YieldedFrom(f)
        /\ Batched = [k \in DOMAIN yielded |-> encode_metalearning_example(yielded[k])]

\* C12 witness: a sequential run ended with several examples yielded into several files
C12_Witness ==
    /\ ~run_options.can_parallel /\ status = "done"
    /\ Len(yielded) >= 3 /\ Len(files) >= 2 /\ Len(files[1]) >= 2

\* C13: when the stream of N examples has ended, batched has produced ceil(N / n)
\* batches, each but the last of n examples, the last of 1..n, N examples in all.
C13_BatchCountAndSizes ==
    (~run_options.can_parallel /\ status = "done") =>
        LET N == Len(yielded)
        IN  /\ Len(files) = (N + chunk_size - 1) \div chunk_size
            /\ \A i \in 1..(Len(files) - 1) : Len(files[i]) = chunk_size
            /\ \A i \in DOMAIN files : Len(files[i]) \in 1..chunk_size
            /\ Len(Flatten(files)) = N

\* C13 witness: a stream that does not fill its last batch has ended
C13_Witness ==
    /\ ~run_options.can_parallel /\ status = "done"
    /\ Len(yielded) % chunk_size # 0 /\ Len(files) >= 2

(********************** properties of the indices ***************************)
\* the payload of the run as the payload generator built it
BuiltPayload ==
    PREPROCESSING_PAYLOAD_GENERATOR(run_mode, dataset.train, vocabulary_colors,
        vocabulary_nouns, run_split)

\* C14: the calls of a retrieval strategy leave the indices as they were built: the
\* same keys, the same buckets.
C14_IndicesUnchangedByLookups ==
    (run_mode # "generate_oracle" /\ status # "start") => run_payload = BuiltPayload

\* the number of indices held by the buckets named
RECURSIVE BucketSizes(_, _)
BucketSizes(index, buckets) ==
    IF buckets = {} THEN 0
    ELSE LET k == CHOOSE x \in buckets : TRUE
         IN  Len(index[k]) + BucketSizes(index, buckets \ {k})

\* every example index 0..N-1 is in one bucket of index, once, and in no other
Partitions(index, N) ==
    /\ \A i \in 0..(N - 1) :
          /\ Cardinality({k \in DOMAIN index : InSeq(i, index[k])}) = 1
          /\ \A k \in DOMAIN index :
                Cardinality({j \in DOMAIN index[k] : index[k][j] = i}) <= 1
    /\ \A k \in DOMAIN index : Range(index[k]) \subseteq 0..(N - 1)
    /\ BucketSizes(index, DOMAIN index) = N

\* C15: each of the five index builders partitions the training examples: every
\* index 0..N-1 is in exactly one bucket, once, and the bucket sizes sum to N.
C15_IndexBuildersPartition ==
    LET N == Len(dataset.train)
    IN  /\ Partitions(sort_indices_by_command(dataset.train), N)
        /\ Partitions(sort_indices_by_offsets(dataset.train), N)
        /\ Partitions(sort_indices_by_target_positions(dataset.train), N)
        /\ Partitions(sort_indices_by_target_diff_and_description(dataset.train), N)
        /\ Partitions(sort_indices_by_serialized_situation(dataset.train), N)

\* C15 witness: the indices of a run were built from a training set in which two
\* examples share a command and two commands share an offset
C15_Witness ==
    /\ status = "running" /\ run_payload # <<>>
    /\ \E k \in DOMAIN sort_indices_by_command(dataset.train) :
          Len(sort_indices_by_command(dataset.train)[k]) >= 2
    /\ Cardinality(DOMAIN sort_indices_by_command(dataset.train)) >= 2
    /\ \E k \in DOMAIN sort_indices_by_offsets(dataset.train) :
          Len(sort_indices_by_offsets(dataset.train)[k]) >= 2

(******************* properties of the situation layouts ********************)
\* the situation laid out by the call
LaidOut == parse_args.situation

\* the (size, color, shape, position) tuples of the two situations are the same
\* multiset, and so are the agent's position and direction
SameSituation(a, b) ==
    /\ a.agent_position = b.agent_position
    /\ a.agent_direction = b.agent_direction
    /\ SameMultiset(a.placed_objects, b.placed_objects)

\* a situation of the data: at most one object other than a container in a cell
ValidLayout(sr) ==
    \A i, j \in DOMAIN sr.placed_objects :
        (i # j /\ sr.placed_objects[i].position = sr.placed_objects[j].position) =>
            (sr.placed_objects[i].object.shape = "box"
                \/ sr.placed_objects[j].object.shape = "box")

\* the placed objects that differ from o in its cell or in one attribute
OtherObjects(o) ==
    {[o EXCEPT !.position = c] : c \in LayoutCells} \cup
    {[o EXCEPT !.object.size = z] : z \in 1..4} \cup
    {[o EXCEPT !.object.color = c] : c \in Range(vocabulary_colors)} \cup
    (IF o.object.shape = "box" THEN {}
     ELSE {[o EXCEPT !.object.shape = n] : n \in Range(vocabulary_nouns)})

\* the situations that differ from sr in the agent, in one object, or by one object
OtherSituations(sr) ==
    {t \in
        {[sr EXCEPT !.agent_position = a, !.agent_direction = d] :
            a \in LayoutCells, d \in 0..3} \cup
        UNION {{[sr EXCEPT !.placed_objects[i] = o] : o \in OtherObjects(sr.placed_objects[i])} :
                 i \in DOMAIN sr.placed_objects} \cup
        {[sr EXCEPT !.placed_objects = SelectSeq(sr.placed_objects, LAMBDA o : o # x)] :
            x \in Range(sr.placed_objects)} :
        ValidLayout(t) /\ ~SameSituation(t, sr)}

\* C16: under either scheme two situations that differ in the agent's position or
\* direction or in the multiset of (size, color, shape, position) of the placed
\* objects never have the same layout.
C16_LayoutDeterminesSituation ==
    parse_args.world_encoding_scheme # None =>
        \A t \in OtherSituations(LaidOut) :
            parse_sparse_situation(t, GridSize, word2idx(vocabulary_colors),
                word2idx(layout_nouns), parse_args.world_encoding_scheme,
                parse_args.reascan_boxes) # grid

\* the same for the data without containers
C16_WithoutContainers ==
    (parse_args.world_encoding_scheme # None /\ ~parse_args.reascan_boxes) =>
        C16_LayoutDeterminesSituation

(******************* properties of the oracle strategy **********************)
\* C17: under generate_oracle a support whose demonstration comes back empty is left
\* out: no yielded example holds a support with an empty action sequence.
C17_FailedDemonstrationSkipped ==
    run_mode = "generate_oracle" =>
        \A k \in DOMAIN yielded :
            /\ Len(yielded[k][4]) = Len(yielded[k][5])
            /\ \A i \in DOMAIN yielded[k][5] : yielded[k][5][i] # <<>>

(**************** properties of the vocabulary construction *****************)
\* some surface word is bound in two of the six categories handed over
SharedWord ==
    \E i, j \in 1..6 :
        i # j /\ DOMAIN vocabulary_args[i] \cap DOMAIN vocabulary_args[j] # {}

\* C18: the construction fails exactly when a surface word is in more than one of the
\* six categories; a vocabulary that was constructed has no such word.
C18_FailsIffSharedWord ==
    vocabulary_args # <<>> =>
        /\ (vocabulary.raised # None) <=> SharedWord
        /\ vocabulary.constructed <=> ~SharedWord

\* C18 witness: the construction failed for bindings whose only shared word is in the
\* first and the last category
C18_Witness ==
    /\ vocabulary_args # <<>> /\ vocabulary.raised = "AssertionError"
    /\ DOMAIN vocabulary_args[1] = {"walk"} /\ DOMAIN vocabulary_args[6] = {"walk"}
    /\ \A i \in 2..5 : DOMAIN vocabulary_args[i] \subseteq {"red"}

(************** C19: the round-robin order of the alternatives *************)
SortModes == <<"color", "object", "size">>

CategoryWords ==
    [color |-> vocabulary_colors, object |-> vocabulary_nouns, size |-> <<"big", "small">>]

\* the option's descriptor words share a word of the mode's category with the
\* descriptor words of the target
MatchesCriterion(option, mode, target_words) ==
    \E w \in Range(option[1]) :
        w \in Range(CategoryWords[mode]) /\ w \in Range(target_words)

\* the positions of the options not yet emitted that match the mode's criterion
Remaining(opts, target_words, mode, emitted) ==
    {i \in DOMAIN opts : i \notin emitted /\ MatchesCriterion(opts[i], mode, target_words)}

Earliest(S) == CHOOSE i \in S : \A j \in S : i <= j

RECURSIVE RoundRobin(_, _, _, _)
\* the order the claim describes, the cycle being at its k-th mode (k counts from 0)
RoundRobin(opts, target_words, k, emitted) ==
    LET mode == SortModes[(k % 3) + 1]
    IN  IF \A m \in Range(SortModes) : Remaining(opts, target_words, m, emitted) = {}
        THEN <<>>
        ELSE IF Remaining(opts, target_words, mode, emitted) = {}
        THEN RoundRobin(opts, target_words, k + 1, emitted)
        ELSE <<opts[Earliest(Remaining(opts, target_words, mode, emitted))]>> \o
             RoundRobin(opts, target_words, k + 1,
                 emitted \cup {Earliest(Remaining(opts, target_words, mode, emitted))})

\* the key of a multi-key sort: color match first, then object match, then size match
MatchKey(option, target_words) ==
    (IF MatchesCriterion(option, "color", target_words) THEN 4 ELSE 0)
    + (IF MatchesCriterion(option, "object", target_words) THEN 2 ELSE 0)
    + (IF MatchesCriterion(option, "size", target_words) THEN 1 ELSE 0)

RECURSIVE StableMultiKeySort(_, _, _)
\* the options at the positions S, by descending key, ties in input order
StableMultiKeySort(opts, target_words, S) ==
    IF S = {} THEN <<>>
    ELSE LET first == CHOOSE i \in S : \A j \in S :
                          \/ MatchKey(opts[i], target_words) > MatchKey(opts[j], target_words)
                          \/ /\ MatchKey(opts[i], target_words) = MatchKey(opts[j], target_words)
                             /\ i <= j
         IN  <<opts[first]>> \o StableMultiKeySort(opts, target_words, S \ {first})

\* the positions of the options that match some criterion
MatchingPositions(opts, target_words) ==
    {i \in DOMAIN opts : MatchKey(opts[i], target_words) > 0}

\* C19: the options come out in the cycle color, object, size, color, ...: each
\* emission is the earliest option in input order that matches the current mode's
\* criterion against the target's descriptor words and was not emitted before, the
\* mode then moves on, and a mode with no matching option left is passed over
C19_RoundRobinOrder ==
    sorted_options.returned =>
        sorted_options.value =
            RoundRobin(sort_args.description_words_options,
                       sort_args.query_description_words, 0, {})

\* a call with three matching alternatives whose round-robin order is not the
\* order of a stable multi-key sort
C19_Witness ==
    /\ sorted_options.returned
    /\ Len(sorted_options.value) >= 3
    /\ sorted_options.value #
           StableMultiKeySort(sort_args.description_words_options,
               sort_args.query_description_words,
               MatchingPositions(sort_args.description_words_options,
                                 sort_args.query_description_words))

(************* C20: pushes to a square of size 3 (rule F) ******************)
\* the support asks to push a square of size 3
PushesBigSquare(support) ==
    /\ InSeq("push", support[1])
    /\ support[2].shape = "square"
    /\ support[2].size = 3

\* C20: with allow_any_example false and a split that does not waive F (train and
\* contextual), no returned support holds the verb "push" with a square of size 3
\* as its target
C20_NoPushToBigSquare ==
    (Returned /\ ~options.allow_any_example
              /\ ~InSeq("F", options.allow_demonstration_splits)) =>
        \A i \in DOMAIN Supports : ~PushesBigSquare(Supports[i])

(************* C21: the loop of the sort ends, with what it emitted ********)
Occurrences(seq, v) == Cardinality({i \in DOMAIN seq : seq[i] = v})

\* each option that matches a criterion is in the list once for each position it was
\* handed over at, and no other option is in it
EmittedExactlyTheMatching(emitted) ==
    \A v \in Range(sort_args.description_words_options) \cup Range(emitted) :
        Occurrences(emitted, v) =
            Cardinality({i \in MatchingPositions(sort_args.description_words_options,
                                                 sort_args.query_description_words) :
                            sort_args.description_words_options[i] = v})

SortLoopEnded ==
    /\ sort_frame.at = "end"
    /\ sorted_options.returned
    /\ EmittedExactlyTheMatching(sorted_options.value)
    /\ sorted_options.value =
           sort_description_words_by_query_match(sort_args.description_words_options,
               sort_args.query_description_words, vocabulary_colors, vocabulary_nouns)

\* C21: the cursor-and-mode loop ends for every option list, and what it emitted then
\* holds each option matching the color, object or size criterion exactly once and no
\* option matching none of them
C21_SortLoopTerminates == (sort_frame.at = "while") ~> SortLoopEnded

\* the loop has ended on a list with an option that matches and one that does not
C21_Witness ==
    /\ sort_frame.at = "end"
    /\ sorted_options.value # <<>>
    /\ Len(sorted_options.value) < Len(sort_args.description_words_options)

(*********** C22: exclusion of the query's command in the lookups **********)
StrictlyAscending(a) == \A i, j \in DOMAIN a : i < j => a[i] < a[j]

\* the command index of the run, third in the payload of a lookup strategy
CommandIndex == run_payload[2]

\* C22: each command bucket is strictly ascending, so find_in_sorted_list(bucket, p)
\* says whether p is in the bucket; hence a lookup strategy returns no training
\* example with the query's command text and, on split train, never the query itself
C22_OwnCommandExcluded ==
    (run_mode \in LookupModes /\ status # "start") =>
        /\ \A k \in DOMAIN CommandIndex :
              /\ StrictlyAscending(CommandIndex[k])
              /\ \A q \in 0..Len(dataset.train) :
                    find_in_sorted_list(CommandIndex[k], q) <=> InSeq(q, CommandIndex[k])
        /\ LastCallReturned =>
              /\ \A i \in DOMAIN drawn_demos :
                    join_words(TrainExample(drawn_demos[i]).command)
                        # join_words(examples_set[position].command)
              /\ run_split = "train" => ~InSeq(position - 1, drawn_demos)

\* a lookup returned supports for a query whose command is the command of two training
\* examples standing in its target's cell, the later one further down its bucket
C22_Witness ==
    /\ run_mode = "find_by_matching_any_object_in_same_target_position"
    /\ LastCallReturned
    /\ drawn_demos # <<>>
    /\ \E i, j \in TrainIndices :
          /\ i < j
          /\ TrainExample(i).command = examples_set[position].command
          /\ TrainExample(j).command = examples_set[position].command
          /\ SameCell(TrainExample(j).situation.target_object,
                      examples_set[position].situation.target_object)

(*************** C23: the order of the rules B, C, D, E, F *****************)
\* the condition of a rule on the arguments of the call, its waiver left aside
RuleHolds(letter) ==
    LET t == rule_args.target_object
        w == Range(rule_args.description_words)
    IN  CASE letter = "B" -> "yellow" \in w /\ "square" \in w
          [] letter = "C" -> t.color = "red" /\ t.shape = "square"
          [] letter = "D" -> /\ rule_args.agent_pos.row < t.row
                             /\ rule_args.agent_pos.column > t.column
          [] letter = "E" -> "small" \in w /\ t.size = 2 /\ t.shape = "circle"
          [] letter = "F" -> "push" \in w /\ t.size = 3 /\ t.shape = "square"

Waived(letter) == letter \in Range(rule_args.allow_demonstration_splits)

\* the positions in B, C, D, E, F of the rules that hold and are not waived
Flagging == {i \in DOMAIN RuleLetters : RuleHolds(RuleLetters[i]) /\ ~Waived(RuleLetters[i])}

\* C23: the rules are evaluated in the order B, C, D, E, F; the call returns the
\* letter of the first rule that holds and is not waived, none when there is no such
\* rule, and a rule that holds but is waived does not keep the later ones from being
\* evaluated
C23_FirstUnwaivedRule ==
    rule_result.returned =>
        IF Flagging = {} THEN rule_result.value = None
        ELSE rule_result.value = RuleLetters[CHOOSE i \in Flagging : \A j \in Flagging : i <= j]

\* a call in which a waived rule holds, a later rule that is not waived holds too and
\* yet another holds after it
C23_Witness ==
    /\ rule_result.returned
    /\ \E i, j, k \in DOMAIN RuleLetters :
          /\ i < j /\ j < k
          /\ RuleHolds(RuleLetters[i]) /\ Waived(RuleLetters[i])
          /\ RuleHolds(RuleLetters[j]) /\ ~Waived(RuleLetters[j])
          /\ RuleHolds(RuleLetters[k]) /\ ~Waived(RuleLetters[k])
          /\ rule_result.value = RuleLetters[j]

(******** C24: limit_verb_adverb keeps the query's verb or adverb **********)
\* the verb phrase is one of the query
VerbOfQuery(verb) == \A w \in Range(verb) : InSeq(w, query_instruction)

\* the adverb phrase is the query's, no adverb being the query's when it has none
AdverbOfQuery(adverb) ==
    IF adverb = <<>>
    THEN words_in(query_instruction, vocabulary_adverbs) = <<>>
    ELSE \A w \in Range(adverb) : InSeq(w, query_instruction)

\* the adverb phrases the oracle combines the verbs with for this query
QueryAdverbOptions ==
    Range(ALL_ADVERB_OPTIONS) \cup
        (IF InSeq("cautiously", query_instruction) THEN {<<"cautiously">>} ELSE {})

\* C24: with limit_verb_adverb, every returned support instruction has a verb phrase
\* of the query or the query's adverb phrase, one of the two being enough, and every
\* combination with one of the two is tried with every description option kept: its
\* instruction is among the supports built unless rule H or its equality with the
\* query rules it out
C24_LimitedToQueryVerbOrAdverb ==
    (Returned /\ options.limit_verb_adverb) =>
        /\ \A i \in DOMAIN Supports :
              \/ VerbOfQuery(words_in(Supports[i][1], vocabulary_verbs))
              \/ AdverbOfQuery(words_in(Supports[i][1], vocabulary_adverbs))
        /\ \A d \in DOMAIN locals.description_words_options :
           \A verb \in Range(ALL_ACTION_OPTIONS), adverb \in QueryAdverbOptions :
              LET dw == locals.description_words_options[d]
                  built == verb \o words_in(query_instruction, <<"a">>) \o dw[1] \o adverb
              IN  (/\ VerbOfQuery(verb) \/ AdverbOfQuery(adverb)
                   /\ is_prohibited_action_adverb_combo(verb, adverb) = None
                        \/ options.allow_any_example
                   /\ built # query_instruction)
                  => InSeq(<<built, dw[2]>>, locals.support_instructions)

\* a limited call built a support with a verb that is not the query's, thanks to its
\* adverb, and one with another adverb than the query's, thanks to its verb
C24_Witness ==
    /\ Returned /\ options.limit_verb_adverb
    /\ \E i, j \in DOMAIN locals.support_instructions :
          /\ ~VerbOfQuery(words_in(locals.support_instructions[i][1], vocabulary_verbs))
          /\ AdverbOfQuery(words_in(locals.support_instructions[i][1], vocabulary_adverbs))
          /\ VerbOfQuery(words_in(locals.support_instructions[j][1], vocabulary_verbs))
          /\ ~AdverbOfQuery(words_in(locals.support_instructions[j][1], vocabulary_adverbs))
    /\ Supports # <<>>

(*************** C25: pull while spinning (rule H) *************************)
PullsWhileSpinning(instruction) ==
    InSeq("pull", instruction) /\ InSeq("while spinning", instruction)

C25_EmittedWithAnyExample ==
    /\ Returned /\ options.allow_any_example
    /\ \E i \in DOMAIN Supports : PullsWhileSpinning(Supports[i][1])

(************** C26: one description option per other object ***************)
\* the placed objects of o's shape and color, o among them
GroupOf(o) ==
    {p \in Range(description_args.situation.placed_objects) :
        p.shape = o.shape /\ p.color = o.color}

\* "big" for the largest of the group, else "small" for the smallest, else no tag
SizeTagOf(o) ==
    IF \A p \in GroupOf(o) : p.size <= o.size THEN <<"big">>
    ELSE IF \A p \in GroupOf(o) : p.size >= o.size THEN <<"small">>
    ELSE <<>>

\* the placed objects that do not stand where the target stands, in the order placed
OthersPlaced ==
    SelectSeq(description_args.situation.placed_objects,
        LAMBDA o : ~(/\ o.row = description_args.situation.target_object.row
                     /\ o.column = description_args.situation.target_object.column))

\* C26: the true target comes first, with the query's descriptor words, then one
\* option for each placed object that is not at the target's position, targeting that
\* object and described by its size tag, color and shape: "big" when its size is the
\* largest of its (shape, color) group, else "small" when it is the smallest, else no
\* tag; an object alone in its group is "big"
C26_OneOptionPerOtherObject ==
    description_options.returned =>
        LET result == description_options.value
        IN  /\ Len(result) = 1 + Len(OthersPlaced)
            /\ result[1] = <<description_args.description_words,
                             description_args.situation.target_object>>
            /\ \A i \in DOMAIN OthersPlaced :
                  /\ result[i + 1][2] = OthersPlaced[i]
                  /\ result[i + 1][1] =
                         SizeTagOf(OthersPlaced[i])
                             \o <<OthersPlaced[i].color, OthersPlaced[i].shape>>
                  /\ GroupOf(OthersPlaced[i]) = {OthersPlaced[i]}
                         => result[i + 1][1][1] = "big"

\* a call whose options hold, after the target, an object tagged small and one of a
\* size between the smallest and the largest of its group, without a tag
C26_Witness ==
    /\ description_options.returned
    /\ \E i, j \in DOMAIN description_options.value :
          /\ i > 1 /\ j > 1
          /\ Len(description_options.value[i][1]) = 2
          /\ description_options.value[j][1][1] = "small"

(********** C27: the color and noun lists handed to the oracle *************)
OracleModes == {"generate_oracle", "generate_find_matching"}

\* what the strategy of the run unpacks from its payload as colors and as nouns and
\* hands to the oracle as vocabulary_colors and vocabulary_nouns
ColorsHandedToOracle ==
    IF run_mode = "generate_oracle" THEN run_payload[1] ELSE run_payload[3]

NounsHandedToOracle ==
    IF run_mode = "generate_oracle" THEN run_payload[2] ELSE run_payload[4]

\* two alternatives to a red circle: the first shares its noun, the second its color
ProbeAlternatives ==
    << << <<"yellow", "circle">>, "first" >>, << <<"red", "square">>, "second" >> >>

\* C27: in the generate_oracle and generate_find_matching strategies the color list
\* reaches the oracle as vocabulary_colors and the noun list as vocabulary_nouns, so
\* that the first bucket of the round-robin is the color match and the second the
\* object match
C27_ColorsAndNounsReachOracle ==
    (run_mode \in OracleModes /\ status # "start") =>
        /\ ColorsHandedToOracle = vocabulary_colors
        /\ NounsHandedToOracle = vocabulary_nouns
        /\ sort_description_words_by_query_match(ProbeAlternatives, <<"red", "circle">>,
               ColorsHandedToOracle, NounsHandedToOracle)[1][1] = <<"red", "square">>

(*********** C28: the oracle always has a support to return ****************)
\* n_description_options is null or at least 1
SomeDescriptionOption ==
    options.n_description_options = <<>> \/ options.n_description_options[1] >= 1

\* C28 as stated: for every situation, query, waiver list and setting of the options
\* with n_description_options null or at least 1, the assertion holds, the oracle does
\* not raise and returns at least one support
C28_AlwaysASupport ==
    (pc = "returned" /\ SomeDescriptionOption) =>
        /\ Len(locals.support_instructions) > 0
        /\ relevant_instructions.error = None
        /\ relevant_instructions.value # <<>>

\* C28 amended: with n_description_options null or at least 1 the loops build at
\* least one support instruction and the oracle does not raise; it returns at least
\* one support when num_demos is at least 1 and the empty list when num_demos is 0
C28_ASupportUnlessNoneAsked ==
    (pc = "returned" /\ SomeDescriptionOption) =>
        /\ Len(locals.support_instructions) > 0
        /\ relevant_instructions.error = None
        /\ relevant_instructions.value = <<>> <=> options.num_demos = 0

\* a call returned supports for a target that matches a rule, no alternative being
\* left, under a split without waivers
C28_Witness ==
    /\ Returned /\ SomeDescriptionOption
    /\ ~options.allow_any_example
    /\ options.allow_demonstration_splits = <<>>
    /\ options.num_demos >= 1
    /\ locals.filtered_sorted_other_description_words = <<>>
    /\ is_prohibited_description(situation.agent_pos, situation.target_object,
           QueryDescriptionWords, <<>>) # None
    /\ Supports # <<>>

(********** C29: the position channels of the "all" layout *****************)
\* the output row of the cell at (row, column) in row-major order
RowOfCell(row, column) == grid[row * GridSize + column + 1]

\* C29: the "all" layout has grid_size * grid_size rows in row-major order, and the two
\* channels appended to the row of the cell at (row, column) hold that row and that
\* column, the coordinates under which the agent and the objects were placed
C29_PositionChannelsAreCoordinates ==
    parse_args.world_encoding_scheme = "all" =>
        /\ Len(grid) = GridSize * GridSize
        /\ \A row, column \in 0..(GridSize - 1) :
              LET cell == RowOfCell(row, column)
              IN  /\ cell[Len(cell) - 1] = row
                  /\ cell[Len(cell)] = column

(************* C30: a batch file is written as its chunk fills *************)
\* the examples generated so far that are in no file
Unwritten == Len(yielded) - Len(Flatten(files))

\* file number i - 1 holds the i-th chunk of the examples yielded
HoldsChunk(i) ==
    files[i] =
        [k \in 1..Len(files[i]) |->
            encode_metalearning_example(yielded[(i - 1) * chunk_size + k])]

WrittenAsFilled ==
    status # "start" =>
        /\ Unwritten < chunk_size
        /\ \A i \in DOMAIN files : HoldsChunk(i)
        /\ \A i \in 1..(Len(files) - 1) : Len(files[i]) = chunk_size
        /\ status # "done" => \A i \in DOMAIN files : Len(files[i]) = chunk_size
        /\ status = "done" => Unwritten = 0

\* a step writes at most one file, after the files there are, and leaves those alone
OneMoreFile ==
    files' # files => Len(files') = Len(files) + 1 /\ SubSeq(files', 1, Len(files)) = files

\* C30: the batch files are numbered from 0 in the order their chunks fill, file i is
\* written before an example of batch i + 1 is generated, so that fewer than chunk-size
\* generated examples are ever unwritten, and the last, partial chunk is written when
\* the stream of examples ends
C30_ChunkWrittenBeforeNextExample == []WrittenAsFilled /\ [][OneMoreFile]_vars

\* a file has been written and an example generated after it is held for the next one
C30_Witness ==
    /\ status = "running"
    /\ Len(files) >= 1
    /\ batch # <<>>
    /\ Unwritten = Len(batch)


====
